---- MODULE Spec2Model ----
(***************************************************************************)
(* A model of the NetBox MCP server (src/app.py): the Streamable-HTTP      *)
(* endpoint /api/mcp, its session table, the JSON-RPC dispatcher, the tool *)
(* registry and the tool handlers' query building and result shaping.      *)
(*                                                                         *)
(* One HTTP request is served by one HandleRequest step; Deliver hands the *)
(* response back to the client and frees the worker.  JSON scalars are     *)
(* written as their JSON text ("10" is the number ten, "0" the number      *)
(* zero); Python's None is the string "None"; a key that is not present in *)
(* a mapping is simply not in its DOMAIN.  Texts are sequences of tokens   *)
(* (the literal pieces and interpolated values of the f-strings).          *)
(***************************************************************************)
EXTENDS Integers, Sequences, FiniteSets, TLC

\* ---- bounds of the model ----
\* number of session ids uuid4 can hand out in one behaviour
MaxSessions == 2
\* number of keys in the argument mapping of a tools/call request
MaxArgs == 1
\* number of client connections that can hold an event stream
MaxStreams == 2
\* number of worker threads serving session requests at the same time
MaxWorkers == 2
\* number of session requests served in one behaviour
MaxRequests == 3
\* the heartbeat interval, time.sleep(30), in clock ticks
Interval == 2

\* ---- Python values ----
None == "None"
\* bool(v) is False for None, 0, "", false
Falsy == {None, "0", "", "false"}
Truthy(v) == v \notin Falsy

\* dict.get(key) / dict.get(key, default)
Get(d, k) == IF k \in DOMAIN d THEN d[k] ELSE None
GetOr(d, k, default) == IF k \in DOMAIN d THEN d[k] ELSE default

EmptyMap == <<>>
Range(s) == {s[i] : i \in DOMAIN s}

\* (a registry that lists nothing)
get_mcp_tools_Empty == <<>>

\* get_mcp_tools(): the tool descriptors behind tools/list, each with its name
\* and the property names of its inputSchema, in source order
get_mcp_tools ==
    << [name |-> "search_devices", properties |-> {"name", "site", "device_type", "role", "status", "limit"}],
       [name |-> "get_device_details", properties |-> {"device_id", "device_name"}],
       [name |-> "get_device_interfaces", properties |-> {"device_id", "device_name", "interface_type", "enabled"}],
       [name |-> "get_sites", properties |-> {"name", "region", "limit"}],
       [name |-> "get_site_details", properties |-> {"site_id", "site_name", "include_devices", "include_racks"}],
       [name |-> "search_ip_addresses", properties |-> {"address", "vrf", "status", "limit"}],
       [name |-> "get_prefixes", properties |-> {"prefix", "within", "family", "status", "site", "vrf", "role", "limit"}],
       [name |-> "get_available_ips", properties |-> {"prefix_id", "prefix", "count"}],
       [name |-> "search_vlans", properties |-> {"vid", "name", "site", "group", "status", "limit"}],
       [name |-> "search_circuits", properties |-> {"cid", "provider", "type", "status", "site", "limit"}],
       [name |-> "search_racks", properties |-> {"name", "site", "location", "status", "limit"}],
       [name |-> "get_rack_details", properties |-> {"rack_id", "rack_name"}],
       [name |-> "search_rack_reservations", properties |-> {"rack", "user", "description", "limit"}],
       [name |-> "search_device_bays", properties |-> {"device_id", "device_name", "name", "limit"}],
       [name |-> "get_device_bay_details", properties |-> {"bay_id", "device_id", "bay_name"}],
       [name |-> "search_device_bay_templates", properties |-> {"device_type_id", "name", "limit"}],
       [name |-> "get_rack_reservation_details", properties |-> {"reservation_id"}],
       [name |-> "search_rack_roles", properties |-> {"name", "slug", "limit"}],
       [name |-> "get_device_bay_template_details", properties |-> {"template_id"}],
       [name |-> "search_device_roles", properties |-> {"name", "slug", "color", "limit"}],
       [name |-> "search_rack_types", properties |-> {"model", "manufacturer", "slug", "u_height", "limit"}],
       [name |-> "get_device_role_details", properties |-> {"role_id", "role_name", "role_slug"}],
       [name |-> "search_device_types", properties |-> {"model", "manufacturer", "slug", "part_number", "limit"}],
       [name |-> "get_device_type_details", properties |-> {"type_id", "model", "slug"}],
       [name |-> "search_vlan_translation_policies", properties |-> {"name", "description", "limit"}],
       [name |-> "search_asns", properties |-> {"asn", "name", "rir", "limit"}],
       [name |-> "search_vlan_translation_rules", properties |-> {"policy_id", "original_vid", "translated_vid", "limit"}],
       [name |-> "get_asn_details", properties |-> {"asn_id", "asn"}],
       [name |-> "search_asn_ranges", properties |-> {"name", "rir", "start", "end", "limit"}],
       [name |-> "get_asn_range_details", properties |-> {"range_id", "name"}],
       [name |-> "search_aggregates", properties |-> {"prefix", "rir", "family", "limit"}],
       [name |-> "search_fhrp_groups", properties |-> {"name", "protocol", "group_id", "auth_type", "limit"}],
       [name |-> "get_aggregate_details", properties |-> {"aggregate_id", "prefix"}],
       [name |-> "search_ip_ranges", properties |-> {"start_address", "end_address", "vrf", "role", "status", "limit"}],
       [name |-> "search_fhrp_group_assignments", properties |-> {"group_id", "interface_id", "priority", "limit"}],
       [name |-> "get_ip_range_details", properties |-> {"range_id", "start_address", "end_address"}],
       [name |-> "search_rirs", properties |-> {"name", "slug", "limit"}],
       [name |-> "search_route_targets", properties |-> {"name", "description", "tenant", "limit"}],
       [name |-> "get_rir_details", properties |-> {"rir_id", "name", "slug"}],
       [name |-> "search_ipam_roles", properties |-> {"name", "slug", "limit"}],
       [name |-> "search_services", properties |-> {"name", "device_id", "virtual_machine_id", "protocol", "ports", "limit"}],
       [name |-> "get_ipam_role_details", properties |-> {"role_id", "name", "slug"}],
       [name |-> "search_vrfs", properties |-> {"name", "rd", "limit"}],
       [name |-> "search_service_templates", properties |-> {"name", "protocol", "ports", "description", "limit"}],
       [name |-> "get_vrf_details", properties |-> {"vrf_id", "name", "rd"}],
       [name |-> "search_vlan_groups", properties |-> {"name", "slug", "site", "limit"}],
       [name |-> "get_vlan_group_details", properties |-> {"group_id", "name", "slug"}],
       [name |-> "search_site_groups", properties |-> {"name", "slug", "parent", "limit"}],
       [name |-> "get_site_group_details", properties |-> {"group_id", "name", "slug"}],
       [name |-> "search_regions", properties |-> {"name", "slug", "parent", "limit"}],
       [name |-> "get_region_details", properties |-> {"region_id", "name", "slug"}],
       [name |-> "search_tenants", properties |-> {"name", "slug", "group", "description", "limit"}],
       [name |-> "get_tenant_details", properties |-> {"tenant_id", "name", "slug"}],
       [name |-> "search_tenant_groups", properties |-> {"name", "slug", "parent", "description", "limit"}],
       [name |-> "get_tenant_group_details", properties |-> {"group_id", "name", "slug"}],
       [name |-> "search_contacts", properties |-> {"name", "email", "group", "title", "limit"}],
       [name |-> "get_contact_details", properties |-> {"contact_id", "name", "email"}],
       [name |-> "search_contact_groups", properties |-> {"name", "slug", "parent", "description", "limit"}],
       [name |-> "get_contact_group_details", properties |-> {"group_id", "name", "slug"}],
       [name |-> "search_contact_roles", properties |-> {"name", "slug", "description", "limit"}],
       [name |-> "get_contact_role_details", properties |-> {"role_id", "name", "slug"}],
       [name |-> "search_virtual_machines", properties |-> {"name", "cluster", "site", "status", "role", "platform", "limit"}],
       [name |-> "get_virtual_machine_details", properties |-> {"vm_id", "name"}],
       [name |-> "search_clusters", properties |-> {"name", "type", "group", "site", "limit"}],
       [name |-> "get_cluster_details", properties |-> {"cluster_id", "name"}],
       [name |-> "search_manufacturers", properties |-> {"name", "slug", "limit"}],
       [name |-> "search_platforms", properties |-> {"name", "slug", "manufacturer", "limit"}],
       [name |-> "search_cables", properties |-> {"label", "type", "status", "color", "device", "site", "limit"}],
       [name |-> "get_cable_details", properties |-> {"cable_id"}],
       [name |-> "search_providers", properties |-> {"name", "slug", "asn", "limit"}],
       [name |-> "search_circuit_types", properties |-> {"name", "slug", "limit"}],
       [name |-> "search_tags", properties |-> {"name", "slug", "color", "limit"}] >>

\* get_mcp_prompts(): the prompt descriptors
get_mcp_prompts ==
    << [name |-> "device-overview", description |-> "Get an overview of devices in NetBox"],
       [name |-> "site-summary", description |-> "Get a comprehensive summary of a specific site"],
       [name |-> "ip-management", description |-> "Explore IP address management and available subnets"],
       [name |-> "device-troubleshoot", description |-> "Troubleshoot connectivity and interface issues for a device"],
       [name |-> "network-infrastructure", description |-> "Analyze network infrastructure including VLANs, circuits, and racks"] >>

\* (a registry that has lost the binding of search_devices)
tools_Unbound ==
    [n \in {get_mcp_tools[i].name : i \in DOMAIN get_mcp_tools} \ {"search_devices"} |-> n]

\* the dictionary `tools` of execute_tool: tool name -> handler function
tools ==
    "search_devices" :> "search_devices" @@
    "get_device_details" :> "get_device_details" @@
    "get_device_interfaces" :> "get_device_interfaces" @@
    "get_sites" :> "get_sites" @@
    "get_site_details" :> "get_site_details" @@
    "search_ip_addresses" :> "search_ip_addresses" @@
    "get_prefixes" :> "get_prefixes" @@
    "get_available_ips" :> "get_available_ips" @@
    "search_vlans" :> "search_vlans" @@
    "search_circuits" :> "search_circuits" @@
    "search_racks" :> "search_racks" @@
    "get_rack_details" :> "get_rack_details" @@
    "search_rack_reservations" :> "search_rack_reservations" @@
    "get_rack_reservation_details" :> "get_rack_reservation_details" @@
    "search_rack_roles" :> "search_rack_roles" @@
    "search_rack_types" :> "search_rack_types" @@
    "search_device_bays" :> "search_device_bays" @@
    "get_device_bay_details" :> "get_device_bay_details" @@
    "search_device_bay_templates" :> "search_device_bay_templates" @@
    "get_device_bay_template_details" :> "get_device_bay_template_details" @@
    "search_device_roles" :> "search_device_roles" @@
    "get_device_role_details" :> "get_device_role_details" @@
    "search_device_types" :> "search_device_types" @@
    "get_device_type_details" :> "get_device_type_details" @@
    "search_vlan_translation_policies" :> "search_vlan_translation_policies" @@
    "search_vlan_translation_rules" :> "search_vlan_translation_rules" @@
    "search_fhrp_groups" :> "search_fhrp_groups" @@
    "search_fhrp_group_assignments" :> "search_fhrp_group_assignments" @@
    "search_route_targets" :> "search_route_targets" @@
    "search_services" :> "search_services" @@
    "search_service_templates" :> "search_service_templates" @@
    "search_asns" :> "search_asns" @@
    "get_asn_details" :> "get_asn_details" @@
    "search_asn_ranges" :> "search_asn_ranges" @@
    "get_asn_range_details" :> "get_asn_range_details" @@
    "search_aggregates" :> "search_aggregates" @@
    "get_aggregate_details" :> "get_aggregate_details" @@
    "search_ip_ranges" :> "search_ip_ranges" @@
    "get_ip_range_details" :> "get_ip_range_details" @@
    "search_rirs" :> "search_rirs" @@
    "get_rir_details" :> "get_rir_details" @@
    "search_ipam_roles" :> "search_ipam_roles" @@
    "get_ipam_role_details" :> "get_ipam_role_details" @@
    "search_vrfs" :> "search_vrfs" @@
    "get_vrf_details" :> "get_vrf_details" @@
    "search_vlan_groups" :> "search_vlan_groups" @@
    "get_vlan_group_details" :> "get_vlan_group_details" @@
    "search_site_groups" :> "search_site_groups" @@
    "get_site_group_details" :> "get_site_group_details" @@
    "search_regions" :> "search_regions" @@
    "get_region_details" :> "get_region_details" @@
    "search_tenants" :> "search_tenants" @@
    "get_tenant_details" :> "get_tenant_details" @@
    "search_tenant_groups" :> "search_tenant_groups" @@
    "get_tenant_group_details" :> "get_tenant_group_details" @@
    "search_contacts" :> "search_contacts" @@
    "get_contact_details" :> "get_contact_details" @@
    "search_contact_groups" :> "search_contact_groups" @@
    "get_contact_group_details" :> "get_contact_group_details" @@
    "search_contact_roles" :> "search_contact_roles" @@
    "get_contact_role_details" :> "get_contact_role_details" @@
    "search_virtual_machines" :> "search_virtual_machines" @@
    "get_virtual_machine_details" :> "get_virtual_machine_details" @@
    "search_clusters" :> "search_clusters" @@
    "get_cluster_details" :> "get_cluster_details" @@
    "search_manufacturers" :> "search_manufacturers" @@
    "search_platforms" :> "search_platforms" @@
    "search_cables" :> "search_cables" @@
    "get_cable_details" :> "get_cable_details" @@
    "search_providers" :> "search_providers" @@
    "search_circuit_types" :> "search_circuit_types" @@
    "search_tags" :> "search_tags"

\* The search/list handlers that share one shape (search_devices, get_prefixes,
\* ... search_tags): the endpoint queried, the `if "key" in args:` filters in
\* source order as <<argument key, backend parameter>>, the resource name of the
\* empty-result text, whether check_empty_results produces that text (helper)
\* or an inline check does, whether the inline text ends in a period, the first literal
\* of the formatted listing, and whether the function ends in a return
\* statement (a function that falls off its end returns None).
SearchTable ==
    "search_devices" :> [endpoint |-> "dcim/devices/", filters |-> <<<<"name", "name__icontains">>, <<"site", "site">>, <<"device_type", "device_type">>, <<"role", "role">>, <<"status", "status">>>>,
        resource |-> "devices", helper |-> TRUE, period |-> FALSE, header |-> "Found {count} devices:", returns |-> TRUE] @@
    "get_prefixes" :> [endpoint |-> "ipam/prefixes/", filters |-> <<<<"prefix", "prefix">>, <<"within", "within">>, <<"family", "family">>, <<"status", "status">>, <<"site", "site">>, <<"vrf", "vrf">>, <<"role", "role">>>>,
        resource |-> "prefixes", helper |-> TRUE, period |-> FALSE, header |-> "Found {count} prefixes:", returns |-> TRUE] @@
    "search_vlans" :> [endpoint |-> "ipam/vlans/", filters |-> <<<<"vid", "vid">>, <<"name", "name__icontains">>, <<"site", "site">>, <<"group", "group">>, <<"status", "status">>>>,
        resource |-> "VLANs", helper |-> TRUE, period |-> FALSE, header |-> "Found {count} VLANs:", returns |-> TRUE] @@
    "search_circuits" :> [endpoint |-> "circuits/circuits/", filters |-> <<<<"cid", "cid__icontains">>, <<"provider", "provider">>, <<"type", "type">>, <<"status", "status">>, <<"site", "site">>>>,
        resource |-> "circuits", helper |-> TRUE, period |-> FALSE, header |-> "Found {count} circuits:", returns |-> TRUE] @@
    "search_racks" :> [endpoint |-> "dcim/racks/", filters |-> <<<<"name", "name__icontains">>, <<"site", "site">>, <<"location", "location">>, <<"status", "status">>>>,
        resource |-> "racks", helper |-> TRUE, period |-> FALSE, header |-> "Found {count} racks:", returns |-> TRUE] @@
    "search_rack_reservations" :> [endpoint |-> "dcim/rack-reservations/", filters |-> <<<<"rack", "rack">>, <<"user", "user">>, <<"description", "description__icontains">>>>,
        resource |-> "rack reservations", helper |-> TRUE, period |-> FALSE, header |-> "Found {count} rack reservations:", returns |-> TRUE] @@
    "search_rack_roles" :> [endpoint |-> "dcim/rack-roles/", filters |-> <<<<"name", "name__icontains">>, <<"slug", "slug">>>>,
        resource |-> "rack roles", helper |-> TRUE, period |-> FALSE, header |-> "Found {count} rack roles:", returns |-> TRUE] @@
    "search_rack_types" :> [endpoint |-> "dcim/rack-types/", filters |-> <<<<"model", "model__icontains">>, <<"manufacturer", "manufacturer">>, <<"slug", "slug">>, <<"u_height", "u_height">>>>,
        resource |-> "rack types", helper |-> TRUE, period |-> FALSE, header |-> "Found {count} rack types:", returns |-> TRUE] @@
    "get_sites" :> [endpoint |-> "dcim/sites/", filters |-> <<<<"name", "name__icontains">>, <<"region", "region">>>>,
        resource |-> "sites", helper |-> TRUE, period |-> FALSE, header |-> "Found {count} sites:", returns |-> TRUE] @@
    "search_ip_addresses" :> [endpoint |-> "ipam/ip-addresses/", filters |-> <<<<"address", "address__contains">>, <<"vrf", "vrf">>, <<"status", "status">>>>,
        resource |-> "IP addresses", helper |-> TRUE, period |-> FALSE, header |-> "Found {count} IP addresses:", returns |-> TRUE] @@
    "search_device_bay_templates" :> [endpoint |-> "dcim/device-bay-templates/", filters |-> <<<<"device_type_id", "device_type_id">>, <<"name", "name__icontains">>>>,
        resource |-> "device bay templates", helper |-> TRUE, period |-> FALSE, header |-> "Found {count} device bay templates:", returns |-> TRUE] @@
    "search_device_roles" :> [endpoint |-> "dcim/device-roles/", filters |-> <<<<"name", "name__icontains">>, <<"slug", "slug">>, <<"color", "color">>>>,
        resource |-> "device roles", helper |-> TRUE, period |-> FALSE, header |-> "Found {count} device roles:", returns |-> TRUE] @@
    "search_device_types" :> [endpoint |-> "dcim/device-types/", filters |-> <<<<"model", "model__icontains">>, <<"manufacturer", "manufacturer">>, <<"slug", "slug">>, <<"part_number", "part_number__icontains">>>>,
        resource |-> "device types", helper |-> TRUE, period |-> FALSE, header |-> "Found {count} device types:", returns |-> TRUE] @@
    "search_vlan_translation_policies" :> [endpoint |-> "ipam/vlan-translation-policies/", filters |-> <<<<"name", "name__icontains">>, <<"description", "description__icontains">>>>,
        resource |-> "VLAN translation policies", helper |-> FALSE, period |-> TRUE, header |-> "Found {count} VLAN translation policies:", returns |-> FALSE] @@
    "search_asns" :> [endpoint |-> "ipam/asns/", filters |-> <<<<"asn", "asn">>, <<"name", "name__icontains">>, <<"rir", "rir">>>>,
        resource |-> "ASNs", helper |-> TRUE, period |-> FALSE, header |-> "Found {count} ASNs:", returns |-> TRUE] @@
    "search_asn_ranges" :> [endpoint |-> "ipam/asn-ranges/", filters |-> <<<<"name", "name__icontains">>, <<"rir", "rir">>, <<"start", "start">>, <<"end", "end">>>>,
        resource |-> "ASN ranges", helper |-> FALSE, period |-> TRUE, header |-> "Found {count} ASN ranges:", returns |-> TRUE] @@
    "search_vlan_translation_rules" :> [endpoint |-> "ipam/vlan-translation-rules/", filters |-> <<<<"policy_id", "policy_id">>, <<"original_vid", "original_vid">>, <<"translated_vid", "translated_vid">>>>,
        resource |-> "VLAN translation rules", helper |-> FALSE, period |-> TRUE, header |-> "Found {count} VLAN translation rules:", returns |-> FALSE] @@
    "search_aggregates" :> [endpoint |-> "ipam/aggregates/", filters |-> <<<<"prefix", "prefix">>, <<"rir", "rir">>, <<"family", "family">>>>,
        resource |-> "aggregates", helper |-> TRUE, period |-> FALSE, header |-> "Found {count} aggregates:", returns |-> TRUE] @@
    "search_fhrp_groups" :> [endpoint |-> "ipam/fhrp-groups/", filters |-> <<<<"name", "name__icontains">>, <<"protocol", "protocol">>, <<"group_id", "group_id">>, <<"auth_type", "auth_type">>>>,
        resource |-> "FHRP groups", helper |-> FALSE, period |-> TRUE, header |-> "Found {count} FHRP groups:", returns |-> FALSE] @@
    "search_ip_ranges" :> [endpoint |-> "ipam/ip-ranges/", filters |-> <<<<"start_address", "start_address">>, <<"end_address", "end_address">>, <<"vrf", "vrf">>, <<"role", "role">>, <<"status", "status">>>>,
        resource |-> "IP ranges", helper |-> FALSE, period |-> TRUE, header |-> "Found {count} IP ranges:", returns |-> TRUE] @@
    "search_fhrp_group_assignments" :> [endpoint |-> "ipam/fhrp-group-assignments/", filters |-> <<<<"group_id", "group_id">>, <<"interface_id", "interface_id">>, <<"priority", "priority">>>>,
        resource |-> "FHRP group assignments", helper |-> FALSE, period |-> TRUE, header |-> "Found {count} FHRP group assignments:", returns |-> FALSE] @@
    "search_rirs" :> [endpoint |-> "ipam/rirs/", filters |-> <<<<"name", "name__icontains">>, <<"slug", "slug">>>>,
        resource |-> "RIRs", helper |-> FALSE, period |-> TRUE, header |-> "Found {count} RIRs:", returns |-> TRUE] @@
    "search_services" :> [endpoint |-> "ipam/services/", filters |-> <<<<"name", "name__icontains">>, <<"device_id", "device_id">>, <<"virtual_machine_id", "virtual_machine_id">>, <<"protocol", "protocol">>, <<"ports", "ports">>>>,
        resource |-> "services", helper |-> TRUE, period |-> FALSE, header |-> "Found {count} services:", returns |-> TRUE] @@
    "search_vrfs" :> [endpoint |-> "ipam/vrfs/", filters |-> <<<<"name", "name__icontains">>, <<"rd", "rd">>>>,
        resource |-> "VRFs", helper |-> TRUE, period |-> FALSE, header |-> "Found {count} VRFs:", returns |-> TRUE] @@
    "search_service_templates" :> [endpoint |-> "ipam/service-templates/", filters |-> <<<<"name", "name__icontains">>, <<"protocol", "protocol">>, <<"ports", "ports">>, <<"description", "description__icontains">>>>,
        resource |-> "service templates", helper |-> TRUE, period |-> FALSE, header |-> "Found {count} service templates:", returns |-> TRUE] @@
    "search_vlan_groups" :> [endpoint |-> "ipam/vlan-groups/", filters |-> <<<<"name", "name__icontains">>, <<"slug", "slug">>, <<"site", "site">>>>,
        resource |-> "VLAN groups", helper |-> TRUE, period |-> FALSE, header |-> "Found {count} VLAN groups:", returns |-> TRUE] @@
    "search_site_groups" :> [endpoint |-> "dcim/site-groups/", filters |-> <<<<"name", "name__icontains">>, <<"slug", "slug">>, <<"parent", "parent">>>>,
        resource |-> "site groups", helper |-> FALSE, period |-> TRUE, header |-> "Found {count} site groups:", returns |-> TRUE] @@
    "search_regions" :> [endpoint |-> "dcim/regions/", filters |-> <<<<"name", "name__icontains">>, <<"slug", "slug">>, <<"parent", "parent">>>>,
        resource |-> "regions", helper |-> FALSE, period |-> TRUE, header |-> "Found {count} regions:", returns |-> TRUE] @@
    "search_tenants" :> [endpoint |-> "tenancy/tenants/", filters |-> <<<<"name", "name__icontains">>, <<"slug", "slug">>, <<"group", "group">>, <<"description", "description__icontains">>>>,
        resource |-> "tenants", helper |-> TRUE, period |-> FALSE, header |-> "Found {count} tenants:", returns |-> TRUE] @@
    "search_tenant_groups" :> [endpoint |-> "tenancy/tenant-groups/", filters |-> <<<<"name", "name__icontains">>, <<"slug", "slug">>, <<"parent", "parent">>, <<"description", "description__icontains">>>>,
        resource |-> "tenant groups", helper |-> FALSE, period |-> TRUE, header |-> "Found {count} tenant groups:", returns |-> TRUE] @@
    "search_contacts" :> [endpoint |-> "tenancy/contacts/", filters |-> <<<<"name", "name__icontains">>, <<"email", "email__icontains">>, <<"group", "group">>, <<"title", "title__icontains">>>>,
        resource |-> "contacts", helper |-> TRUE, period |-> FALSE, header |-> "Found {count} contacts:", returns |-> TRUE] @@
    "search_contact_groups" :> [endpoint |-> "tenancy/contact-groups/", filters |-> <<<<"name", "name__icontains">>, <<"slug", "slug">>, <<"parent", "parent">>, <<"description", "description__icontains">>>>,
        resource |-> "contact groups", helper |-> FALSE, period |-> TRUE, header |-> "Found {count} contact groups:", returns |-> TRUE] @@
    "search_contact_roles" :> [endpoint |-> "tenancy/contact-roles/", filters |-> <<<<"name", "name__icontains">>, <<"slug", "slug">>, <<"description", "description__icontains">>>>,
        resource |-> "contact roles", helper |-> FALSE, period |-> TRUE, header |-> "Found {count} contact roles:", returns |-> TRUE] @@
    "search_virtual_machines" :> [endpoint |-> "virtualization/virtual-machines/", filters |-> <<<<"name", "name__icontains">>, <<"cluster", "cluster">>, <<"site", "site">>, <<"status", "status">>, <<"role", "role">>, <<"platform", "platform">>>>,
        resource |-> "virtual machines", helper |-> TRUE, period |-> FALSE, header |-> "# Virtual Machines ", returns |-> TRUE] @@
    "search_clusters" :> [endpoint |-> "virtualization/clusters/", filters |-> <<<<"name", "name__icontains">>, <<"type", "type">>, <<"group", "group">>, <<"site", "site">>>>,
        resource |-> "clusters", helper |-> TRUE, period |-> FALSE, header |-> "# Virtualization Clusters ", returns |-> TRUE] @@
    "search_manufacturers" :> [endpoint |-> "dcim/manufacturers/", filters |-> <<<<"name", "name__icontains">>, <<"slug", "slug">>>>,
        resource |-> "manufacturers", helper |-> TRUE, period |-> FALSE, header |-> "# Device Manufacturers ", returns |-> TRUE] @@
    "search_platforms" :> [endpoint |-> "dcim/platforms/", filters |-> <<<<"name", "name__icontains">>, <<"slug", "slug">>, <<"manufacturer", "manufacturer">>>>,
        resource |-> "platforms", helper |-> TRUE, period |-> FALSE, header |-> "# Device Platforms ", returns |-> TRUE] @@
    "search_cables" :> [endpoint |-> "dcim/cables/", filters |-> <<<<"label", "label__icontains">>, <<"type", "type">>, <<"status", "status">>, <<"color", "color">>>>,
        resource |-> "cables", helper |-> TRUE, period |-> FALSE, header |-> "# Cables ", returns |-> TRUE] @@
    "search_providers" :> [endpoint |-> "circuits/providers/", filters |-> <<<<"name", "name__icontains">>, <<"slug", "slug">>, <<"asn", "asn">>>>,
        resource |-> "providers", helper |-> FALSE, period |-> FALSE, header |-> "# Circuit Providers ", returns |-> TRUE] @@
    "search_circuit_types" :> [endpoint |-> "circuits/circuit-types/", filters |-> <<<<"name", "name__icontains">>, <<"slug", "slug">>>>,
        resource |-> "circuit types", helper |-> FALSE, period |-> FALSE, header |-> "# Circuit Types ", returns |-> TRUE] @@
    "search_tags" :> [endpoint |-> "extras/tags/", filters |-> <<<<"name", "name__icontains">>, <<"slug", "slug">>, <<"color", "color">>>>,
        resource |-> "tags", helper |-> FALSE, period |-> FALSE, header |-> "# Tags ", returns |-> TRUE]

\* The get-by-id-or-name handlers (get_device_details ... get_cable_details):
\*   idKey    the argument holding the id
\*   alts     alternatives to the id, in the order the code tries them, as
\*            <<argument key, lookup parameter>> (one lookup parameter each)
\*   both     arguments that together replace the id (one lookup with all)
\*   lookup   the endpoint of the secondary lookup
\*   notFound the text returned when the lookup has no match
\*   must     the text returned when no usable identifier was supplied
\*   tail     "detail": GET <endpoint><id>/ and format the object;
\*            "list": get_device_interfaces; "available": get_available_ips
\*   detailTry / caught   the try/except around the detail request
\*   extras   further requests made while formatting (guarded: inside
\*            try/except Exception; cond: the argument that switches it on)
DetailTable ==
    "get_device_interfaces" :> [idKey |-> "device_id", alts |-> <<<<"device_name", "name">>>>, both |-> <<>>,
        lookup |-> "dcim/devices/", notFound |-> <<[t |-> "lit", s |-> "Device '"], [t |-> "arg", s |-> "device_name"], [t |-> "lit", s |-> "' not found"]>>,
        must |-> "Either device_id or device_name must be provided", tail |-> "list", endpoint |-> "dcim/interfaces/", detailTry |-> "none", caught |-> <<>>,
        extras |-> <<>>, header |-> "Interfaces for device ID "] @@
    "get_site_details" :> [idKey |-> "site_id", alts |-> <<<<"site_name", "name">>>>, both |-> <<>>,
        lookup |-> "dcim/sites/", notFound |-> <<[t |-> "lit", s |-> "Site '"], [t |-> "arg", s |-> "site_name"], [t |-> "lit", s |-> "' not found"]>>,
        must |-> "Either site_id or site_name must be provided", tail |-> "detail", endpoint |-> "dcim/sites/", detailTry |-> "none", caught |-> <<>>,
        extras |-> <<[path |-> <<"dcim/devices/">>, params |-> <<<<"site_id", "id", "">>, <<"limit", "const", "100">>>>, guarded |-> FALSE, cond |-> "include_devices"], [path |-> <<"dcim/racks/">>, params |-> <<<<"site_id", "id", "">>, <<"limit", "const", "100">>>>, guarded |-> FALSE, cond |-> "include_racks"]>>, header |-> "# Site Details: "] @@
    "get_available_ips" :> [idKey |-> "prefix_id", alts |-> <<<<"prefix", "prefix">>>>, both |-> <<>>,
        lookup |-> "ipam/prefixes/", notFound |-> <<[t |-> "lit", s |-> "Prefix '"], [t |-> "arg", s |-> "prefix"], [t |-> "lit", s |-> "' not found"]>>,
        must |-> "Either prefix_id or prefix must be provided", tail |-> "available", endpoint |-> "ipam/prefixes/", detailTry |-> "none", caught |-> <<>>,
        extras |-> <<>>, header |-> "Available IP addresses (showing up to "] @@
    "get_rack_details" :> [idKey |-> "rack_id", alts |-> <<<<"rack_name", "name">>>>, both |-> <<>>,
        lookup |-> "dcim/racks/", notFound |-> <<[t |-> "lit", s |-> "Rack '"], [t |-> "arg", s |-> "rack_name"], [t |-> "lit", s |-> "' not found"]>>,
        must |-> "Either rack_id or rack_name must be provided", tail |-> "detail", endpoint |-> "dcim/racks/", detailTry |-> "none", caught |-> <<>>,
        extras |-> <<[path |-> <<"dcim/racks/", "{id}", "/elevation/">>, params |-> <<>>, guarded |-> TRUE, cond |-> ""]>>, header |-> "# Rack Details: "] @@
    "get_rack_reservation_details" :> [idKey |-> "reservation_id", alts |-> <<>>, both |-> <<>>,
        lookup |-> "", notFound |-> <<>>,
        must |-> "reservation_id must be provided", tail |-> "detail", endpoint |-> "dcim/rack-reservations/", detailTry |-> "except_exception", caught |-> <<[t |-> "lit", s |-> "Rack reservation with ID "], [t |-> "arg", s |-> "reservation_id"], [t |-> "lit", s |-> " not found"]>>,
        extras |-> <<>>, header |-> "# Rack Reservation Details: "] @@
    "get_device_details" :> [idKey |-> "device_id", alts |-> <<<<"device_name", "name">>>>, both |-> <<>>,
        lookup |-> "dcim/devices/", notFound |-> <<[t |-> "lit", s |-> "Device '"], [t |-> "arg", s |-> "device_name"], [t |-> "lit", s |-> "' not found"]>>,
        must |-> "Either device_id or device_name must be provided", tail |-> "detail", endpoint |-> "dcim/devices/", detailTry |-> "none", caught |-> <<>>,
        extras |-> <<>>, header |-> "# Device Details: "] @@
    "get_device_bay_details" :> [idKey |-> "bay_id", alts |-> <<>>, both |-> <<<<"device_id", "device_id">>, <<"bay_name", "name">>>>,
        lookup |-> "dcim/device-bays/", notFound |-> <<[t |-> "lit", s |-> "Device bay '"], [t |-> "arg", s |-> "bay_name"], [t |-> "lit", s |-> "' not found in device ID "], [t |-> "arg", s |-> "device_id"]>>,
        must |-> "Either bay_id or both device_id and bay_name must be provided", tail |-> "detail", endpoint |-> "dcim/device-bays/", detailTry |-> "none", caught |-> <<>>,
        extras |-> <<>>, header |-> "# Device Bay Details: "] @@
    "get_device_bay_template_details" :> [idKey |-> "template_id", alts |-> <<>>, both |-> <<>>,
        lookup |-> "", notFound |-> <<>>,
        must |-> "template_id must be provided", tail |-> "detail", endpoint |-> "dcim/device-bay-templates/", detailTry |-> "none", caught |-> <<>>,
        extras |-> <<>>, header |-> "# Device Bay Template Details: "] @@
    "get_device_role_details" :> [idKey |-> "role_id", alts |-> <<<<"role_name", "name">>, <<"role_slug", "slug">>>>, both |-> <<>>,
        lookup |-> "dcim/device-roles/", notFound |-> <<[t |-> "lit", s |-> "Device role '"], [t |-> "ident", s |-> ""], [t |-> "lit", s |-> "' not found"]>>,
        must |-> "Either role_id, role_name, or role_slug must be provided", tail |-> "detail", endpoint |-> "dcim/device-roles/", detailTry |-> "none", caught |-> <<>>,
        extras |-> <<>>, header |-> "# Device Role Details: "] @@
    "get_device_type_details" :> [idKey |-> "type_id", alts |-> <<<<"model", "model">>, <<"slug", "slug">>>>, both |-> <<>>,
        lookup |-> "dcim/device-types/", notFound |-> <<[t |-> "lit", s |-> "Device type '"], [t |-> "ident", s |-> ""], [t |-> "lit", s |-> "' not found"]>>,
        must |-> "Either type_id, model, or slug must be provided", tail |-> "detail", endpoint |-> "dcim/device-types/", detailTry |-> "none", caught |-> <<>>,
        extras |-> <<>>, header |-> "# Device Type Details: "] @@
    "get_asn_details" :> [idKey |-> "asn_id", alts |-> <<<<"asn", "asn">>>>, both |-> <<>>,
        lookup |-> "ipam/asns/", notFound |-> <<[t |-> "lit", s |-> "ASN "], [t |-> "arg", s |-> "asn"], [t |-> "lit", s |-> " not found"]>>,
        must |-> "Either asn_id or asn must be provided", tail |-> "detail", endpoint |-> "ipam/asns/", detailTry |-> "none", caught |-> <<>>,
        extras |-> <<>>, header |-> "# ASN Details: AS"] @@
    "get_asn_range_details" :> [idKey |-> "range_id", alts |-> <<<<"name", "name">>>>, both |-> <<>>,
        lookup |-> "ipam/asn-ranges/", notFound |-> <<[t |-> "lit", s |-> "ASN range '"], [t |-> "arg", s |-> "name"], [t |-> "lit", s |-> "' not found"]>>,
        must |-> "Either range_id or name must be provided", tail |-> "detail", endpoint |-> "ipam/asn-ranges/", detailTry |-> "none", caught |-> <<>>,
        extras |-> <<>>, header |-> "# ASN Range Details: "] @@
    "get_aggregate_details" :> [idKey |-> "aggregate_id", alts |-> <<<<"prefix", "prefix">>>>, both |-> <<>>,
        lookup |-> "ipam/aggregates/", notFound |-> <<[t |-> "lit", s |-> "Aggregate '"], [t |-> "arg", s |-> "prefix"], [t |-> "lit", s |-> "' not found"]>>,
        must |-> "Either aggregate_id or prefix must be provided", tail |-> "detail", endpoint |-> "ipam/aggregates/", detailTry |-> "none", caught |-> <<>>,
        extras |-> <<>>, header |-> "# Aggregate Details: "] @@
    "get_ip_range_details" :> [idKey |-> "range_id", alts |-> <<>>, both |-> <<<<"start_address", "start_address">>, <<"end_address", "end_address">>>>,
        lookup |-> "ipam/ip-ranges/", notFound |-> <<[t |-> "lit", s |-> "IP range '"], [t |-> "arg", s |-> "start_address"], [t |-> "lit", s |-> " - "], [t |-> "arg", s |-> "end_address"], [t |-> "lit", s |-> "' not found"]>>,
        must |-> "Either range_id or both start_address and end_address must be provided", tail |-> "detail", endpoint |-> "ipam/ip-ranges/", detailTry |-> "none", caught |-> <<>>,
        extras |-> <<>>, header |-> "# IP Range Details: "] @@
    "get_rir_details" :> [idKey |-> "rir_id", alts |-> <<<<"name", "name">>, <<"slug", "slug">>>>, both |-> <<>>,
        lookup |-> "ipam/rirs/", notFound |-> <<[t |-> "lit", s |-> "RIR '"], [t |-> "ident", s |-> ""], [t |-> "lit", s |-> "' not found"]>>,
        must |-> "Either rir_id, name, or slug must be provided", tail |-> "detail", endpoint |-> "ipam/rirs/", detailTry |-> "none", caught |-> <<>>,
        extras |-> <<>>, header |-> "# RIR Details: "] @@
    "get_ipam_role_details" :> [idKey |-> "role_id", alts |-> <<<<"name", "name">>, <<"slug", "slug">>>>, both |-> <<>>,
        lookup |-> "ipam/roles/", notFound |-> <<[t |-> "lit", s |-> "IPAM role '"], [t |-> "ident", s |-> ""], [t |-> "lit", s |-> "' not found"]>>,
        must |-> "Either role_id, name, or slug must be provided", tail |-> "detail", endpoint |-> "ipam/roles/", detailTry |-> "none", caught |-> <<>>,
        extras |-> <<>>, header |-> "# IPAM Role Details: "] @@
    "get_vrf_details" :> [idKey |-> "vrf_id", alts |-> <<<<"name", "name">>, <<"rd", "rd">>>>, both |-> <<>>,
        lookup |-> "ipam/vrfs/", notFound |-> <<[t |-> "lit", s |-> "VRF '"], [t |-> "ident", s |-> ""], [t |-> "lit", s |-> "' not found"]>>,
        must |-> "Either vrf_id, name, or rd must be provided", tail |-> "detail", endpoint |-> "ipam/vrfs/", detailTry |-> "except_httpstatus", caught |-> <<[t |-> "lit", s |-> "VRF with ID "], [t |-> "id", s |-> ""], [t |-> "lit", s |-> " not found"]>>,
        extras |-> <<>>, header |-> "# VRF Details: "] @@
    "get_vlan_group_details" :> [idKey |-> "group_id", alts |-> <<<<"name", "name">>, <<"slug", "slug">>>>, both |-> <<>>,
        lookup |-> "ipam/vlan-groups/", notFound |-> <<[t |-> "lit", s |-> "VLAN group '"], [t |-> "ident", s |-> ""], [t |-> "lit", s |-> "' not found"]>>,
        must |-> "Either group_id, name, or slug must be provided", tail |-> "detail", endpoint |-> "ipam/vlan-groups/", detailTry |-> "none", caught |-> <<>>,
        extras |-> <<>>, header |-> "# VLAN Group Details: "] @@
    "get_site_group_details" :> [idKey |-> "group_id", alts |-> <<<<"name", "name">>, <<"slug", "slug">>>>, both |-> <<>>,
        lookup |-> "dcim/site-groups/", notFound |-> <<[t |-> "lit", s |-> "Site group '"], [t |-> "ident", s |-> ""], [t |-> "lit", s |-> "' not found"]>>,
        must |-> "Either group_id, name, or slug must be provided", tail |-> "detail", endpoint |-> "dcim/site-groups/", detailTry |-> "none", caught |-> <<>>,
        extras |-> <<[path |-> <<"dcim/sites/">>, params |-> <<<<"group", "id", "">>, <<"limit", "const", "1">>>>, guarded |-> TRUE, cond |-> ""]>>, header |-> "# Site Group Details: "] @@
    "get_region_details" :> [idKey |-> "region_id", alts |-> <<<<"name", "name">>, <<"slug", "slug">>>>, both |-> <<>>,
        lookup |-> "dcim/regions/", notFound |-> <<[t |-> "lit", s |-> "Region '"], [t |-> "ident", s |-> ""], [t |-> "lit", s |-> "' not found"]>>,
        must |-> "Either region_id, name, or slug must be provided", tail |-> "detail", endpoint |-> "dcim/regions/", detailTry |-> "none", caught |-> <<>>,
        extras |-> <<[path |-> <<"dcim/sites/">>, params |-> <<<<"region", "id", "">>, <<"limit", "const", "1">>>>, guarded |-> TRUE, cond |-> ""], [path |-> <<"dcim/regions/">>, params |-> <<<<"parent", "id", "">>, <<"limit", "const", "1">>>>, guarded |-> TRUE, cond |-> ""]>>, header |-> "# Region Details: "] @@
    "get_tenant_details" :> [idKey |-> "tenant_id", alts |-> <<<<"name", "name">>, <<"slug", "slug">>>>, both |-> <<>>,
        lookup |-> "tenancy/tenants/", notFound |-> <<[t |-> "lit", s |-> "Tenant '"], [t |-> "ident", s |-> ""], [t |-> "lit", s |-> "' not found"]>>,
        must |-> "Either tenant_id, name, or slug must be provided", tail |-> "detail", endpoint |-> "tenancy/tenants/", detailTry |-> "none", caught |-> <<>>,
        extras |-> <<>>, header |-> "# Tenant Details: "] @@
    "get_tenant_group_details" :> [idKey |-> "group_id", alts |-> <<<<"name", "name">>, <<"slug", "slug">>>>, both |-> <<>>,
        lookup |-> "tenancy/tenant-groups/", notFound |-> <<[t |-> "lit", s |-> "Tenant group '"], [t |-> "ident", s |-> ""], [t |-> "lit", s |-> "' not found"]>>,
        must |-> "Either group_id, name, or slug must be provided", tail |-> "detail", endpoint |-> "tenancy/tenant-groups/", detailTry |-> "none", caught |-> <<>>,
        extras |-> <<[path |-> <<"tenancy/tenants/">>, params |-> <<<<"group", "id", "">>, <<"limit", "const", "1">>>>, guarded |-> TRUE, cond |-> ""], [path |-> <<"tenancy/tenant-groups/">>, params |-> <<<<"parent", "id", "">>, <<"limit", "const", "1">>>>, guarded |-> TRUE, cond |-> ""]>>, header |-> "# Tenant Group Details: "] @@
    "get_contact_details" :> [idKey |-> "contact_id", alts |-> <<<<"name", "name">>, <<"email", "email">>>>, both |-> <<>>,
        lookup |-> "tenancy/contacts/", notFound |-> <<[t |-> "lit", s |-> "Contact '"], [t |-> "ident", s |-> ""], [t |-> "lit", s |-> "' not found"]>>,
        must |-> "Either contact_id, name, or email must be provided", tail |-> "detail", endpoint |-> "tenancy/contacts/", detailTry |-> "none", caught |-> <<>>,
        extras |-> <<>>, header |-> "# Contact Details: "] @@
    "get_contact_group_details" :> [idKey |-> "group_id", alts |-> <<<<"name", "name">>, <<"slug", "slug">>>>, both |-> <<>>,
        lookup |-> "tenancy/contact-groups/", notFound |-> <<[t |-> "lit", s |-> "Contact group '"], [t |-> "ident", s |-> ""], [t |-> "lit", s |-> "' not found"]>>,
        must |-> "Either group_id, name, or slug must be provided", tail |-> "detail", endpoint |-> "tenancy/contact-groups/", detailTry |-> "none", caught |-> <<>>,
        extras |-> <<[path |-> <<"tenancy/contacts/">>, params |-> <<<<"group", "id", "">>, <<"limit", "const", "1">>>>, guarded |-> TRUE, cond |-> ""], [path |-> <<"tenancy/contact-groups/">>, params |-> <<<<"parent", "id", "">>, <<"limit", "const", "1">>>>, guarded |-> TRUE, cond |-> ""]>>, header |-> "# Contact Group Details: "] @@
    "get_contact_role_details" :> [idKey |-> "role_id", alts |-> <<<<"name", "name">>, <<"slug", "slug">>>>, both |-> <<>>,
        lookup |-> "tenancy/contact-roles/", notFound |-> <<[t |-> "lit", s |-> "Contact role '"], [t |-> "ident", s |-> ""], [t |-> "lit", s |-> "' not found"]>>,
        must |-> "Either role_id, name, or slug must be provided", tail |-> "detail", endpoint |-> "tenancy/contact-roles/", detailTry |-> "none", caught |-> <<>>,
        extras |-> <<>>, header |-> "# Contact Role Details: "] @@
    "get_virtual_machine_details" :> [idKey |-> "vm_id", alts |-> <<<<"name", "name">>>>, both |-> <<>>,
        lookup |-> "virtualization/virtual-machines/", notFound |-> <<[t |-> "lit", s |-> "Virtual machine '"], [t |-> "arg", s |-> "name"], [t |-> "lit", s |-> "' not found"]>>,
        must |-> "Either vm_id or name must be provided", tail |-> "detail", endpoint |-> "virtualization/virtual-machines/", detailTry |-> "none", caught |-> <<>>,
        extras |-> <<>>, header |-> "# Virtual Machine Details: "] @@
    "get_cluster_details" :> [idKey |-> "cluster_id", alts |-> <<<<"name", "name">>>>, both |-> <<>>,
        lookup |-> "virtualization/clusters/", notFound |-> <<[t |-> "lit", s |-> "Cluster '"], [t |-> "arg", s |-> "name"], [t |-> "lit", s |-> "' not found"]>>,
        must |-> "Either cluster_id or name must be provided", tail |-> "detail", endpoint |-> "virtualization/clusters/", detailTry |-> "none", caught |-> <<>>,
        extras |-> <<>>, header |-> "# Cluster Details: "] @@
    "get_cable_details" :> [idKey |-> "cable_id", alts |-> <<>>, both |-> <<>>,
        lookup |-> "", notFound |-> <<>>,
        must |-> "cable_id must be provided", tail |-> "detail", endpoint |-> "dcim/cables/", detailTry |-> "none", caught |-> <<>>,
        extras |-> <<>>, header |-> "# Cable Details: "]

\* ---- the backend (NetBox REST API) as the handlers see it ----
\* What the backend can do with one request: answer 2xx with no match
\* ({"count":0,"results":[]}, or [] from a bare-list endpoint), answer 2xx
\* with matches (the object asked for, from a detail endpoint), fail in a
\* way httpx reports as an httpx.HTTPError (non-2xx status, connection
\* refused, timeout), or answer 2xx with a body that is not JSON.
AnswerKinds == {"empty", "items", "error", "malformed"}

\* NetBoxClient.get: response.raise_for_status() and the transport raise
\* httpx.HTTPError, which `except httpx.HTTPError` re-raises as Exception;
\* response.json() raises json.JSONDecodeError (a ValueError) for a body that
\* is not JSON, which that except clause does not catch
get(answer) ==
    CASE answer = "error" -> [raised |-> TRUE, exc |-> "Exception"]
      [] answer = "malformed" -> [raised |-> TRUE, exc |-> "JSONDecodeError"]
      [] OTHER -> [raised |-> FALSE, exc |-> ""]
\* the answers for which the call does not return
Failures == {a \in AnswerKinds : get(a).raised}
\* the id of the first match of a lookup, results[0]["id"]
FirstMatchId == "42"
\* the default of args.get("limit", 10) and of args.get("count", 10)
DefaultLimit == "10"

\* a backend request: the path as the pieces of its f-string, and the
\* query parameters (no params argument and an empty dict send none)
Query(path, params) == [path |-> path, params |-> params]

\* ---- what a handler call does: the requests it made, the answers it
\* ---- got, and the list it returned or the exception it raised
PyNone == [py |-> "None"]
PyList(items) == [py |-> "list", items |-> items]
TextItem(text) == [type |-> "text", text |-> text]
Text(text) == PyList(<<TextItem(text)>>)

Returned(qs, as, content) ==
    [queries |-> qs, answers |-> as, raised |-> FALSE, exc |-> "", content |-> content]
Raised(qs, as, e) ==
    [queries |-> qs, answers |-> as, raised |-> TRUE, exc |-> e, content |-> PyNone]

\* a JSON member that is an object or null (params, arguments): a Python
\* dict, or None
PyDict(m) == [isNone |-> FALSE, map |-> m]
NoneDict == [isNone |-> TRUE, map |-> EmptyMap]

\* check_empty_results(result, resource_name): the text of the item returned
\* for an empty result
EmptyResultText(resource_name) ==
    <<"No ", resource_name, " found matching the criteria">>

check_empty_results(answer, resource_name) ==
    IF answer = "empty" THEN Text(EmptyResultText(resource_name)) ELSE PyNone

\* a faulty variant that sends every filter, supplied or not
SearchParams_Eager(filters, args) ==
    [p \in {"limit"} \cup {filters[i][2] : i \in DOMAIN filters} |->
        IF p = "limit" THEN GetOr(args, "limit", DefaultLimit)
        ELSE Get(args, filters[CHOOSE i \in DOMAIN filters : filters[i][2] = p][1])]

\* params = {"limit": args.get("limit", 10)} followed by the
\* `if "key" in args: params["param"] = args["key"]` statements of `filters`
SearchParams(filters, args) ==
    LET supplied == {i \in DOMAIN filters : filters[i][1] \in DOMAIN args}
        setBy(p) == {i \in supplied : filters[i][2] = p}
        last(S) == CHOOSE i \in S : \A j \in S : j <= i
    IN  [p \in {"limit"} \cup {filters[i][2] : i \in supplied} |->
            IF setBy(p) # {} THEN args[filters[last(setBy(p))][1]]
            ELSE GetOr(args, "limit", DefaultLimit)]

\* the text an inline `if not results:` check returns
InlineEmptyText(S) ==
    IF S.period THEN EmptyResultText(S.resource) \o <<".">>
    ELSE EmptyResultText(S.resource)

\* the shared shape of the search/list handlers
SearchHandler(S, args) ==
    IF args.isNone THEN {Raised(<<>>, <<>>, "AttributeError")}
    ELSE LET q == Query(<<S.endpoint>>, SearchParams(S.filters, args.map))
         IN  { CASE get(a).raised -> Raised(<<q>>, <<a>>, get(a).exc)
                 [] S.helper /\ check_empty_results(a, S.resource) # PyNone ->
                        Returned(<<q>>, <<a>>, check_empty_results(a, S.resource))
                 [] ~S.helper /\ a = "empty" ->
                        Returned(<<q>>, <<a>>, Text(InlineEmptyText(S)))
                 [] OTHER -> Returned(<<q>>, <<a>>,
                                IF S.returns THEN Text(<<S.header>>) ELSE PyNone)
               : a \in AnswerKinds }

\* search_route_targets: the function body is its docstring only
search_route_targets(args) ==
    {Returned(<<>>, <<>>, PyNone)}

\* search_ipam_roles: queries ipam/route-targets/ first and, when that has
\* matches, goes on to query ipam/roles/ with the same params plus slug
search_ipam_roles(args) ==
    IF args.isNone THEN {Raised(<<>>, <<>>, "AttributeError")}
    ELSE
    LET first == <<<<"name", "name__icontains">>,
                   <<"description", "description__icontains">>,
                   <<"tenant", "tenant">>>>
        q1 == Query(<<"ipam/route-targets/">>, SearchParams(first, args.map))
        q2 == Query(<<"ipam/roles/">>,
                    SearchParams(first \o <<<<"slug", "slug">>>>, args.map))
    IN  { Raised(<<q1>>, <<a>>, get(a).exc) : a \in Failures } \cup
          { Returned(<<q1>>, <<"empty">>,
                   Text(EmptyResultText("route targets") \o <<".">>)) }
        \cup
        { CASE get(a).raised -> Raised(<<q1, q2>>, <<"items", a>>, get(a).exc)
            [] a = "empty" -> Returned(<<q1, q2>>, <<"items", a>>,
                                Text(EmptyResultText("IPAM roles") \o <<".">>))
            [] OTHER -> Returned(<<q1, q2>>, <<"items", a>>,
                                Text(<<"Found {count} IPAM roles:">>))
          : a \in AnswerKinds }

\* search_device_bays: a search whose device filter is an id or a name
search_device_bays(args) ==
    IF args.isNone THEN {Raised(<<>>, <<>>, "AttributeError")}
    ELSE
    LET a0 == args.map
        device_id == Get(a0, "device_id")
        device_name == Get(a0, "device_name")
        lookup == Truthy(device_name) /\ ~Truthy(device_id)
        lq == Query(<<"dcim/devices/">>, "name" :> device_name)
        params(id) ==
            LET base == "limit" :> GetOr(a0, "limit", DefaultLimit)
                withId == IF Truthy(id) THEN ("device_id" :> id) @@ base ELSE base
            IN  IF "name" \in DOMAIN a0
                THEN ("name__icontains" :> a0["name"]) @@ withId ELSE withId
        main(qs, as, id) ==
            LET q == Query(<<"dcim/device-bays/">>, params(id))
            IN  { CASE get(a).raised -> Raised(qs \o <<q>>, as \o <<a>>, get(a).exc)
                    [] a = "empty" -> Returned(qs \o <<q>>, as \o <<a>>,
                                        check_empty_results(a, "device bays"))
                    [] OTHER -> Returned(qs \o <<q>>, as \o <<a>>,
                                        Text(<<"Found {count} device bays:">>))
                  : a \in AnswerKinds }
    IN  IF lookup
        THEN { Raised(<<lq>>, <<a>>, get(a).exc) : a \in Failures } \cup
               { Returned(<<lq>>, <<"empty">>,
                        Text(<<"Device '", device_name, "' not found">>)) }
             \cup main(<<lq>>, <<"items">>, FirstMatchId)
        ELSE main(<<>>, <<>>, device_id)

\* ---- the get-by-id-or-name handlers ----
\* an f-string: literal pieces, argument values, the identifier of the
\* lookup (`name or slug`) and the resolved id
Format(tokens, args, ident, id) ==
    [i \in DOMAIN tokens |->
        CASE tokens[i].t = "lit" -> tokens[i].s
          [] tokens[i].t = "arg" -> Get(args, tokens[i].s)
          [] tokens[i].t = "ident" -> ident
          [] OTHER -> id]

\* `if not x_id and not name and not slug: return [must]`, resp.
\* `if not x_id and not (a and b)`: is there anything to resolve the object by
Usable(D, args) ==
    \/ Truthy(Get(args, D.idKey))
    \/ \E i \in DOMAIN D.alts : Truthy(Get(args, D.alts[i][1]))
    \/ D.both # <<>> /\ \A i \in DOMAIN D.both : Truthy(Get(args, D.both[i][1]))

\* the alternative the lookup uses: `if name: ... else: <the other one>`
ChosenAlt(D, args) ==
    LET truthy == {i \in DOMAIN D.alts : Truthy(Get(args, D.alts[i][1]))}
    IN  IF truthy = {} THEN Len(D.alts)
        ELSE CHOOSE i \in truthy : \A j \in truthy : i <= j

\* (a faulty variant of the lookup that sends no filter)
LookupQuery_Unfiltered(D, args) ==
    Query(<<D.lookup>>, EmptyMap)

\* (a faulty variant of the lookup that sends every alternative as a
\* filter, supplied or not)
LookupQuery_EveryAlternative(D, args) ==
    Query(<<D.lookup>>,
          [p \in {D.alts[i][2] : i \in DOMAIN D.alts} \cup {D.both[i][2] : i \in DOMAIN D.both} |->
              LET a == D.alts \o D.both
              IN  Get(args, a[CHOOSE i \in DOMAIN a : a[i][2] = p][1])])

\* the secondary lookup made when the id is not supplied
LookupQuery(D, args) ==
    IF D.both # <<>>
    THEN Query(<<D.lookup>>,
               [p \in {D.both[i][2] : i \in DOMAIN D.both} |->
                   Get(args, D.both[CHOOSE i \in DOMAIN D.both : D.both[i][2] = p][1])])
    ELSE LET c == ChosenAlt(D, args)
         IN  Query(<<D.lookup>>, D.alts[c][2] :> Get(args, D.alts[c][1]))

\* identifier = name or slug
Identifier(D, args) ==
    IF D.alts = <<>> THEN None ELSE Get(args, D.alts[ChosenAlt(D, args)][1])

\* one request made while formatting the object
ExtraQuery(e, id) ==
    Query([i \in DOMAIN e.path |-> IF e.path[i] = "{id}" THEN id ELSE e.path[i]],
          [p \in {e.params[i][1] : i \in DOMAIN e.params} |->
              LET i == CHOOSE j \in DOMAIN e.params : e.params[j][1] = p
              IN  IF e.params[i][2] = "id" THEN id ELSE e.params[i][3]])

\* include_devices = args.get("include_devices", True)
ExtraWanted(e, args) ==
    e.cond = "" \/ Truthy(GetOr(args, e.cond, "true"))

\* the requests after the detail request, from the i-th on, and the final
\* return of the formatted text
RECURSIVE Extras(_, _, _, _, _, _)
Extras(D, args, id, i, qs, as) ==
    IF i > Len(D.extras) THEN {Returned(qs, as, Text(<<D.header>>))}
    ELSE IF ~ExtraWanted(D.extras[i], args) THEN Extras(D, args, id, i + 1, qs, as)
    ELSE LET q == ExtraQuery(D.extras[i], id)
         IN  UNION { IF get(a).raised /\ ~D.extras[i].guarded
                     THEN {Raised(qs \o <<q>>, as \o <<a>>, get(a).exc)}
                     ELSE Extras(D, args, id, i + 1, qs \o <<q>>, as \o <<a>>)
                     : a \in AnswerKinds }

\* what GET <endpoint><id>/ can do: answer with the object, or fail (404 for
\* an id the backend does not know, or a body that is not JSON)
DetailAnswers == {"items"} \cup Failures

\* GET <endpoint><id>/ and the formatting of the object.  Only
\* `except Exception` catches what the client raises: the client turns
\* httpx errors into Exception and lets the JSON error through, so
\* `except httpx.HTTPStatusError` never fires.
DetailTail(D, args, id, qs, as) ==
    LET q == Query(<<D.endpoint, id, "/">>, EmptyMap)
    IN  UNION { CASE get(a).raised /\ D.detailTry = "except_exception" ->
                        {Returned(qs \o <<q>>, as \o <<a>>,
                                  Text(Format(D.caught, args, None, id)))}
                  [] get(a).raised /\ D.detailTry # "except_exception" ->
                        {Raised(qs \o <<q>>, as \o <<a>>, get(a).exc)}
                  [] OTHER -> Extras(D, args, id, 1, qs \o <<q>>, as \o <<a>>)
                : a \in DetailAnswers }

\* get_device_interfaces after the device is resolved
InterfacesTail(D, args, id, qs, as) ==
    LET base == "device_id" :> id
        withType == IF "interface_type" \in DOMAIN args
                    THEN ("type" :> args["interface_type"]) @@ base ELSE base
        params == IF "enabled" \in DOMAIN args
                  THEN ("enabled" :> args["enabled"]) @@ withType ELSE withType
        q == Query(<<D.endpoint>>, params)
    IN  { CASE get(a).raised -> Raised(qs \o <<q>>, as \o <<a>>, get(a).exc)
            [] a = "empty" -> Returned(qs \o <<q>>, as \o <<a>>,
                                Text(<<"No interfaces found for this device.">>))
            [] OTHER -> Returned(qs \o <<q>>, as \o <<a>>, Text(<<D.header>>))
          : a \in AnswerKinds }

\* get_available_ips after the prefix is resolved
AvailableTail(D, args, id, qs, as) ==
    LET q == Query(<<D.endpoint, id, "/available-ips/">>,
                   "limit" :> GetOr(args, "count", DefaultLimit))
    IN  { CASE get(a).raised -> Raised(qs \o <<q>>, as \o <<a>>, get(a).exc)
            [] a = "empty" -> Returned(qs \o <<q>>, as \o <<a>>,
                                Text(<<"No available IP addresses found in this prefix.">>))
            [] OTHER -> Returned(qs \o <<q>>, as \o <<a>>, Text(<<D.header>>))
          : a \in AnswerKinds }

HandlerTail(D, args, id, qs, as) ==
    CASE D.tail = "list" -> InterfacesTail(D, args, id, qs, as)
      [] D.tail = "available" -> AvailableTail(D, args, id, qs, as)
      [] OTHER -> DetailTail(D, args, id, qs, as)

\* the shared shape of the get-by-id-or-name handlers
DetailHandler(D, args) ==
    IF args.isNone THEN {Raised(<<>>, <<>>, "AttributeError")}
    ELSE IF ~Usable(D, args.map) THEN {Returned(<<>>, <<>>, Text(<<D.must>>))}
    ELSE IF Truthy(Get(args.map, D.idKey))
    THEN HandlerTail(D, args.map, Get(args.map, D.idKey), <<>>, <<>>)
    ELSE LET lq == LookupQuery(D, args.map)
         IN  { Raised(<<lq>>, <<a>>, get(a).exc) : a \in Failures } \cup
               { Returned(<<lq>>, <<"empty">>,
                        Text(Format(D.notFound, args.map,
                                    Identifier(D, args.map), None))) }
             \cup HandlerTail(D, args.map, FirstMatchId, <<lq>>, <<"items">>)

\* ---- execute_tool ----
\* what calling the handler function `h` with `args` can do
Handler(h, args) ==
    CASE h = "search_route_targets" -> search_route_targets(args)
      [] h = "search_ipam_roles" -> search_ipam_roles(args)
      [] h = "search_device_bays" -> search_device_bays(args)
      [] h \in DOMAIN SearchTable -> SearchHandler(SearchTable[h], args)
      [] OTHER -> DetailHandler(DetailTable[h], args)

\* if tool_name not in tools: raise ValueError; return await tools[tool_name](args, client)
execute_tool(tool_name, args) ==
    IF tool_name \notin DOMAIN tools
    THEN {Raised(<<>>, <<>>, "ValueError")}
    ELSE Handler(tools[tool_name], args)

\* ---- the JSON-RPC dispatcher ----
ProtocolVersion == "2025-03-26"

ResultEnvelope(msg_id, result) ==
    [jsonrpc |-> "2.0", id |-> msg_id, result |-> result]
\* (a faulty variant that carries a result beside the error)
ErrorEnvelope_WithResult(msg_id, code, message) ==
    [jsonrpc |-> "2.0", id |-> msg_id, result |-> [content |-> <<>>],
     error |-> [code |-> code, message |-> message]]
ErrorEnvelope(msg_id, code, message) ==
    [jsonrpc |-> "2.0", id |-> msg_id, error |-> [code |-> code, message |-> message]]

\* generate_prompt_content(prompt_name, arguments): the one user message
generate_prompt_content(prompt_name, arguments) ==
    LET a == arguments.map
        text ==
          CASE prompt_name = "device-overview" ->
                 IF Truthy(GetOr(a, "site", ""))
                 THEN <<"Please provide an overview of all devices", " at site '", a["site"], "'", " in NetBox.">>
                 ELSE <<"Please provide an overview of all devices", "", " in NetBox.">>
            [] prompt_name = "site-summary" ->
                 <<"Please provide a comprehensive summary of the '", GetOr(a, "site_name", ""), "' site in NetBox.">>
            [] prompt_name = "ip-management" ->
                 IF Truthy(GetOr(a, "prefix", ""))
                 THEN <<"Help me explore IP address management in NetBox", " for the ", a["prefix"], " network", ".">>
                 ELSE <<"Help me explore IP address management in NetBox", "", ".">>
            [] prompt_name = "device-troubleshoot" ->
                 <<"Help me troubleshoot connectivity and interface issues for device '", GetOr(a, "device_name", ""), "'.">>
            [] prompt_name = "network-infrastructure" ->
                 IF GetOr(a, "focus_area", "all") # "all"
                 THEN <<"Analyze the network infrastructure in NetBox, ", "focusing on ", a["focus_area"], ".">>
                 ELSE <<"Analyze the network infrastructure in NetBox, ", "covering all areas", ".">>
            [] OTHER -> <<"Unknown prompt: ", prompt_name>>
    IN  <<[role |-> "user", content |-> [type |-> "text", text |-> text]]>>

\* What handle_mcp_message(message, session_id) can do for a message that is
\* a JSON object: the set of [envelope, run], one per way the backend can
\* answer.  `run` is what execute_tool did (NoRun when it was not called).
\* (For a message that is not an object the function raises AttributeError at
\* message.get, before its try block; mcp_endpoint models that case.)
NoRun == Returned(<<>>, <<>>, PyNone)
Handled(envelope, run) == [envelope |-> envelope, run |-> run]

\* `if not NETBOX_TOKEN`: is the backend credential configured
\* (a faulty variant that never looks)
Configured_Always(token) == TRUE
Configured(token) == Truthy(token)

\* a faulty variant in which the handler's exception is swallowed
ToolOutcome_Swallowing(msg_id, run) ==
    Handled(ResultEnvelope(msg_id, [content |-> run.content]), run)

\* result = await execute_tool(...) inside the try block: what the handler
\* returned becomes result.content; what it raised is caught by
\* `except Exception` and becomes the -32603 envelope
ToolOutcome(msg_id, run) ==
    IF run.raised
    THEN Handled(ErrorEnvelope(msg_id, -32603, <<"Internal error: ", run.exc>>), run)
    ELSE Handled(ResultEnvelope(msg_id, [content |-> run.content]), run)

\* the defaults of message.get('params', {}) and params.get('arguments', {})
\* (a faulty variant whose default is None, as a plain .get has it)
DefaultArguments_None == NoneDict
DefaultArguments == PyDict(EmptyMap)
DefaultParams == PyDict(EmptyMap)

handle_mcp_message(message, token) ==
    LET method == Get(message, "method")
        msg_id == Get(message, "id")
        params == IF "params" \in DOMAIN message THEN message["params"] ELSE DefaultParams
        internal(e) ==
            Handled(ErrorEnvelope(msg_id, -32603, <<"Internal error: ", e>>), NoRun)
    IN
    CASE method = "initialize" ->
           {Handled(ResultEnvelope(msg_id,
                [protocolVersion |-> ProtocolVersion,
                 capabilities |-> {"tools", "prompts"},
                 serverInfo |-> [name |-> "netbox-mcp-server", version |-> "1.0.0"]]), NoRun)}
      [] method = "tools/list" ->
           {Handled(ResultEnvelope(msg_id, [tools |-> get_mcp_tools]), NoRun)}
      [] method = "resources/list" ->
           {Handled(ResultEnvelope(msg_id, [resources |-> <<>>]), NoRun)}
      [] method = "tools/call" ->
           IF params.isNone THEN {internal("AttributeError")}
           ELSE LET tool_name == Get(params.map, "name")
                    arguments == IF "arguments" \in DOMAIN params.map
                                 THEN params.map["arguments"] ELSE DefaultArguments
                IN  IF ~Configured(token)
                    THEN {Handled(ErrorEnvelope(msg_id, -32000,
                                    <<"NetBox token not configured">>), NoRun)}
                    ELSE { ToolOutcome(msg_id, run)
                           : run \in execute_tool(tool_name, arguments) }
      [] method = "prompts/list" ->
           {Handled(ResultEnvelope(msg_id, [prompts |-> get_mcp_prompts]), NoRun)}
      [] method = "prompts/get" ->
           IF params.isNone THEN {internal("AttributeError")}
           ELSE LET prompt_name == Get(params.map, "name")
                    found == {i \in DOMAIN get_mcp_prompts :
                                 get_mcp_prompts[i].name = prompt_name}
                    arguments == IF "arguments" \in DOMAIN params.map
                                 THEN params.map["arguments"] ELSE DefaultArguments
                IN  IF ~Truthy(prompt_name)
                    THEN {Handled(ErrorEnvelope(msg_id, -32602,
                                    <<"Missing required parameter: name">>), NoRun)}
                    ELSE IF found = {}
                    THEN {Handled(ErrorEnvelope(msg_id, -32602,
                                    <<"Prompt not found: ", prompt_name>>), NoRun)}
                    ELSE IF arguments.isNone THEN {internal("AttributeError")}
                    ELSE LET prompt == get_mcp_prompts[CHOOSE i \in found :
                                                          \A j \in found : i <= j]
                         IN  {Handled(ResultEnvelope(msg_id,
                                [description |-> prompt.description,
                                 messages |-> generate_prompt_content(prompt_name, arguments)]),
                                NoRun)}
      [] OTHER ->
           {Handled(ErrorEnvelope(msg_id, -32601, <<"Method not found: ", method>>), NoRun)}

\* ---- the HTTP endpoint /api/mcp ----
VARIABLES
    sessions,      \* the module-level dict `sessions`: session id -> record
    issued,        \* the values uuid.uuid4() has returned so far, in order
    NETBOX_TOKEN,  \* the module-level NETBOX_TOKEN ("" when not configured)
    pc,            \* "idle": no request in progress; "responded": a response
                   \* is on its way to the client
    req,           \* the request being answered
    resp,          \* its response: status, headers, body
    calls,         \* what the tool handler did for this request
    streams,       \* per client connection: the event stream of its GET
    threads,       \* per worker thread: the request it serves and how far
                   \* it has got in mcp_endpoint
    history        \* the session requests answered so far, in order of answer

vars == <<sessions, issued, NETBOX_TOKEN, pc, req, resp, calls, streams, threads, history>>

\* str(uuid.uuid4()): a value it has not returned before
Uuid(i) == "uuid-" \o ToString(i)
\* (a faulty generator that repeats itself)
uuid4_Repeating(given) == Uuid(1)
uuid4(given) == Uuid(Len(given) + 1)
SessionIds == {Uuid(i) : i \in 1..MaxSessions}

\* ---- requests ----
\* the Mcp-Session-Id header: not sent (None), sent empty, naming an id that
\* was never issued, or naming an id uuid4 can issue
HeaderValues == {None, "", "never-issued"} \cup SessionIds

\* The POST body as request.get_json() sees it:
\*   "malformed"     JSON content type, text that is not JSON (or no text)
\*   "absent"        no body and no JSON content type
\*   "null", "empty_object", "empty_array"   the JSON values null, {}, []
\*   "array"         a JSON value that is neither falsy nor an object
\*   "object"        a JSON object with at least one member: `data`
BodyKinds == {"malformed", "absent", "null", "empty_object", "empty_array", "array", "object"}

Request(http, session, accept, body, data) ==
    [http |-> http, session |-> session, accept |-> accept, body |-> body, data |-> data]
NoRequest == Request("", None, "", "", EmptyMap)

\* JSON-RPC messages: jsonrpc, and optionally id, method, params
Message(ids, methods, paramss) ==
    { ("jsonrpc" :> "2.0") @@ i @@ m @@ p : i \in ids, m \in methods, p \in paramss }
WithId == {EmptyMap, "id" :> "7"}
Method(m) == "method" :> m
Params(p) == "params" :> p
NameArgs(names, argss) ==
    { PyDict(n @@ a) : n \in names, a \in argss }
Name(n) == "name" :> n
Arguments(a) == "arguments" :> a

ToolNames == {get_mcp_tools[i].name : i \in DOMAIN get_mcp_tools}
PromptNames == {get_mcp_prompts[i].name : i \in DOMAIN get_mcp_prompts}

\* the keys a tools/call request may carry for a tool: the properties of its
\* schema and the keys its handler reads
HandlerKeys(h) ==
    CASE h \in DOMAIN SearchTable ->
           {SearchTable[h].filters[i][1] : i \in DOMAIN SearchTable[h].filters}
      [] h \in DOMAIN DetailTable ->
           LET D == DetailTable[h]
           IN  ({D.idKey} \cup {D.alts[i][1] : i \in DOMAIN D.alts}
                  \cup {D.both[i][1] : i \in DOMAIN D.both}
                  \cup {D.extras[i].cond : i \in DOMAIN D.extras}) \ {""}
      [] OTHER -> {"name", "description", "tenant", "slug", "device_id", "device_name"}
ArgKeys(tool) ==
    LET d == CHOOSE i \in DOMAIN get_mcp_tools : get_mcp_tools[i].name = tool
    IN  get_mcp_tools[d].properties \cup {"limit"}
          \cup (IF tool \in DOMAIN tools THEN HandlerKeys(tools[tool]) ELSE {})
\* argument values: a number or name that is truthy, and the number zero
ArgValues == {"7", "0"}
\* the argument mappings with at most MaxArgs keys
ArgMaps(tool) ==
    UNION { [K -> ArgValues] : K \in {K \in SUBSET ArgKeys(tool) : Cardinality(K) <= MaxArgs} }

\* the requests that exercise transport, sessions and dispatch
TransportMessages ==
    Message(WithId,
            {EmptyMap} \cup {Method(m) : m \in {"initialize", "tools/list", "resources/list",
                                                 "prompts/list", "nonexistent/method"}},
            {EmptyMap, Params(NoneDict), Params(PyDict(EmptyMap))})
    \cup
    Message(WithId, {Method("tools/call")},
            {EmptyMap, Params(NoneDict)}
            \cup {Params(p) : p \in NameArgs({EmptyMap} \cup {Name(n) : n \in ToolNames \cup {"unknown_tool"}},
                                              {EmptyMap, Arguments(NoneDict), Arguments(PyDict(EmptyMap))})})
    \cup
    Message(WithId, {Method("prompts/get")},
            {EmptyMap, Params(NoneDict)}
            \cup {Params(p) : p \in NameArgs({EmptyMap} \cup {Name(n) : n \in PromptNames \cup {"unknown-prompt", ""}},
                                              {EmptyMap, Arguments(NoneDict), Arguments(PyDict(EmptyMap)),
                                               Arguments(PyDict("site" :> "7"))})})

TransportRequests ==
    { Request("GET", s, a, "", EmptyMap) : s \in HeaderValues, a \in {"text/event-stream", "application/json"} }
    \cup { Request("DELETE", s, "", "", EmptyMap) : s \in HeaderValues }
    \cup { Request("POST", s, "", b, EmptyMap) : s \in HeaderValues, b \in BodyKinds \ {"object"} }
    \cup { Request("POST", s, "", "object", d) : s \in HeaderValues, d \in TransportMessages }

\* the requests that exercise the tool handlers' argument handling
ToolRequests ==
    UNION { { Request("POST", None, "", "object",
                      ("jsonrpc" :> "2.0") @@ ("id" :> "7") @@ Method("tools/call")
                        @@ Params(PyDict(Name(t) @@ Arguments(PyDict(a)))))
              : a \in ArgMaps(t) }
            : t \in ToolNames }

Requests == TransportRequests \cup ToolRequests

\* ---- responses ----
\* status, headers, and the body: a JSON document (kind "json"), a text
\* (kind "empty" for the empty text) or the events of a stream
Response(status, headers, kind, body) ==
    [status |-> status, headers |-> headers, kind |-> kind, body |-> body]
EmptyBody == [text |-> ""]
NoResponse == Response(0, EmptyMap, "", EmptyBody)

\* return '', 204
NoContent == Response(204, EmptyMap, "empty", EmptyBody)
\* jsonify({... -32700 "Parse error"}), 400
ParseError ==
    Response(400, EmptyMap, "json",
             [jsonrpc |-> "2.0", error |-> [code |-> -32700, message |-> <<"Parse error">>]])
\* (a faulty variant without the try block: Flask's own error page)
InternalError_Uncaught ==
    Response(500, EmptyMap, "html", [text |-> "Internal Server Error"])
\* the `except Exception` of the POST branch: jsonify({... -32603}), 500
InternalError ==
    Response(500, EmptyMap, "json",
             [jsonrpc |-> "2.0", error |-> [code |-> -32603, message |-> <<"Internal error">>]])
\* the server-identity document of a plain GET
ServerInfo ==
    Response(200, EmptyMap, "json",
             [name |-> "netbox-mcp-server", version |-> "1.0.0",
              protocolVersion |-> ProtocolVersion, capabilities |-> {"tools"}])
\* the event stream of a GET that accepts text/event-stream, as far as
\* sse_generator has got when the response starts: its first heartbeat
EventStream ==
    Response(200, EmptyMap, "stream", [events |-> <<[type |-> "heartbeat"]>>])

\* ---- the event stream ----
\* json.dumps({'type': 'heartbeat', 'timestamp': datetime.utcnow().isoformat()})
Heartbeat == [type |-> "heartbeat", timestamp |-> "utcnow"]
NoEvent == [type |-> "", timestamp |-> ""]
\* `while True:` after a yield the generator sleeps again
\* (a faulty variant whose generator returns after its first heartbeat)
Resume_Returning == "done"
Resume == "sleeping"
\* the Accept headers of a GET, as the media types they list
\* (request.headers.get('Accept', '') is empty when the header is absent)
AcceptHeaders ==
    {{}, {"application/json"}, {"text/event-stream"}, {"application/json", "text/event-stream"}}
\* 'text/event-stream' in accept_header
Negotiates(accept) == "text/event-stream" \in accept
\* a client connection: the Accept header of its GET, the response it got,
\* whether the stream is open, where sse_generator stands ("start": not yet
\* run, "sleeping": in time.sleep(30), "done": closed), the time slept,
\* the parity of the number of events sent and the last event
Stream(accept, response, conn, at, timer, sent, last) ==
    [accept |-> accept, resp |-> response, conn |-> conn, at |-> at,
     timer |-> timer, sent |-> sent, last |-> last]
NoStream == Stream({}, NoResponse, "none", "none", 0, 0, NoEvent)
\* the Mcp-Session-Id header of a GET: absent, or the first id uuid4 issues
\* (live or not, as the session table has it)
StreamHeaders == {None, uuid4(<<>>)}
\* sse_generator(session_id): the generator, not yet run; it makes no use
\* of its argument
sse_generator(session_id) == "start"
\* what writing an event to a client's connection can do.  A connection is
\* "open", "gone" (the client has closed it and the server has not
\* noticed: the server learns of it only by writing) or "reset" (a write
\* after the close went into the socket and the peer answered with a
\* reset).  The first write after the close is lost or fails, as the
\* transport has it; the one after that fails.
\* (a faulty variant in which writing to a closed connection never fails)
Write_NeverFailing(conn) ==
    IF conn = "open" THEN {"sent"} ELSE {"lost"}
Write(conn) ==
    CASE conn = "open" -> {"sent"}
      [] conn = "gone" -> {"lost", "failed"}
      [] OTHER -> {"failed"}
Clients == 1..MaxStreams

\* ---- worker threads ----
\* app.run(threaded=True): every request is served by a thread of its own.
\* A thread: where it stands in mcp_endpoint ("idle": serving nothing), the
\* method and Mcp-Session-Id header of its request, the id uuid4 gave it,
\* and the status and Mcp-Session-Id header of its response
Thread(at, http, session_id, new_session_id, status, header) ==
    [at |-> at, http |-> http, session |-> session_id,
     new_session_id |-> new_session_id, status |-> status, header |-> header]
NoThread == Thread("idle", "", None, None, 0, None)
Workers == 1..MaxWorkers

\* ---- the session table ----
\* a faulty variant that empties the table
Terminate_Clearing(table, session_id) ==
    IF Truthy(session_id) /\ session_id \in DOMAIN table THEN EmptyMap ELSE table

\* a faulty variant that forgets to delete the record
Terminate_Keeping(table, session_id) ==
    table

\* if session_id and session_id in sessions: del sessions[session_id]
Terminate(table, session_id) ==
    IF Truthy(session_id) /\ session_id \in DOMAIN table
    THEN [s \in DOMAIN table \ {session_id} |-> table[s]]
    ELSE table

\* (a faulty variant that rebinds the table to the new record alone)
Create_Overwriting(table, new_session_id, now) ==
    new_session_id :> [created_at |-> now, initialized |-> TRUE]

\* sessions[new_session_id] = {"created_at": ..., "initialized": True}
\* (created_at: the time is modelled by the ordinal of the creation)
Create(table, new_session_id, now) ==
    [s \in DOMAIN table \cup {new_session_id} |->
        IF s = new_session_id THEN [created_at |-> now, initialized |-> TRUE]
        ELSE table[s]]

\* a faulty variant that ignores the session header
CreatesSession_IgnoringHeader(session_id, data) ==
    Get(data, "method") = "initialize"

\* if not session_id and data.get('method') == 'initialize'
CreatesSession(session_id, data) ==
    ~Truthy(session_id) /\ Get(data, "method") = "initialize"

\* request.get_json(): the parsed value ("value"), None, or an HTTP exception.
\* Malformed JSON makes it raise BadRequest; a body without a JSON content
\* type makes it return None or raise, depending on the Flask version.
get_json(body) ==
    CASE body = "malformed" -> {"raise"}
      [] body = "absent" -> {"None", "raise"}
      [] OTHER -> {"value"}

\* `not data` for the parsed value
FalsyData(body) == body \in {"null", "empty_object", "empty_array"}

\* response = handle_mcp_message(data, session_id): the dispatcher is handed
\* the session id, and the table is a global it could read; it uses neither
Dispatch_RequiringSession(data, session_id, table, token) ==
    IF Get(data, "method") # "initialize" /\ session_id \notin DOMAIN table
    THEN {Handled(ErrorEnvelope(Get(data, "id"), -32600, <<"Invalid session">>), NoRun)}
    ELSE handle_mcp_message(data, token)
Dispatch(data, session_id, table, token) ==
    handle_mcp_message(data, token)

\* ---- the actions ----
\* the POST requests whose body parses to a JSON object
ObjectPosts == {r \in Requests : r.http = "POST" /\ r.body = "object"}

Respond(r, response, run) ==
    /\ pc' = "responded"
    /\ req' = r
    /\ resp' = response
    /\ calls' = run
    /\ UNCHANGED <<NETBOX_TOKEN, streams, threads, history>>

\* DELETE: terminate the session named by the header, if any
Delete ==
    /\ pc = "idle"
    /\ \E r \in Requests :
        /\ r.http = "DELETE"
        /\ sessions' = Terminate(sessions, r.session)
        /\ UNCHANGED issued
        /\ Respond(r, NoContent, NoRun)

\* GET: the event stream or the server-identity document
Get_ ==
    /\ pc = "idle"
    /\ \E r \in Requests :
        /\ r.http = "GET"
        /\ UNCHANGED <<sessions, issued>>
        /\ Respond(r, IF r.accept = "text/event-stream" THEN EventStream ELSE ServerInfo, NoRun)

\* POST whose body get_json() rejects or parses to a falsy value
AnswerUnparsed(r) ==
    \E parsed \in get_json(r.body) :
        /\ r.http = "POST"
        /\ parsed # "value" \/ FalsyData(r.body)
        /\ UNCHANGED <<sessions, issued>>
        /\ Respond(r, IF parsed = "raise" THEN InternalError ELSE ParseError, NoRun)

PostUnparsed ==
    /\ pc = "idle"
    /\ \E r \in Requests : AnswerUnparsed(r)

\* POST of a JSON value that is truthy but not an object: message.get
\* raises AttributeError outside handle_mcp_message's try block
AnswerNotObject(r) ==
    /\ r.http = "POST" /\ r.body = "array"
    /\ UNCHANGED <<sessions, issued>>
    /\ Respond(r, InternalError, NoRun)

PostNotObject ==
    /\ pc = "idle"
    /\ \E r \in Requests : AnswerNotObject(r)

\* POST of a JSON-RPC message that does not create a session
AnswerMessage(r) ==
    \E h \in Dispatch(r.data, r.session, sessions, NETBOX_TOKEN) :
        /\ UNCHANGED <<sessions, issued>>
        /\ Respond(r, Response(200, EmptyMap, "json", h.envelope), h.run)

PostMessage ==
    /\ pc = "idle"
    /\ \E r \in {q \in ObjectPosts : ~CreatesSession(q.session, q.data)} : AnswerMessage(r)

\* POST of initialize without a session id: the message is handled, then the
\* session is created and its id returned in the Mcp-Session-Id header
AnswerInitialize(r) ==
    \E h \in Dispatch(r.data, r.session, sessions, NETBOX_TOKEN) :
        /\ LET new_session_id == uuid4(issued)
           IN  /\ issued' = Append(issued, new_session_id)
               /\ sessions' = Create(sessions, new_session_id, Len(issued) + 1)
               /\ Respond(r, Response(200, "Mcp-Session-Id" :> new_session_id,
                                      "json", h.envelope), h.run)

PostInitialize ==
    /\ pc = "idle"
    /\ Len(issued) < MaxSessions
    /\ \E r \in {q \in ObjectPosts : CreatesSession(q.session, q.data)} : AnswerInitialize(r)

\* the response reaches the client; the worker is free again
Deliver ==
    /\ pc = "responded"
    /\ pc' = "idle"
    /\ req' = NoRequest
    /\ resp' = NoResponse
    /\ calls' = NoRun
    /\ UNCHANGED <<sessions, issued, NETBOX_TOKEN, streams, threads, history>>

Init ==
    /\ sessions = EmptyMap
    /\ issued = <<>>
    /\ NETBOX_TOKEN \in {"", "token"}
    /\ pc = "idle"
    /\ req = NoRequest
    /\ resp = NoResponse
    /\ calls = NoRun
    /\ streams = [c \in Clients |-> NoStream]
    /\ threads = [w \in Workers |-> NoThread]
    /\ history = <<>>

Next ==
    \/ Delete
    \/ Get_
    \/ PostUnparsed
    \/ PostNotObject
    \/ PostMessage
    \/ PostInitialize
    \/ Deliver

Spec == Init /\ [][Next]_vars

\* ---- a POST from its arrival to its response ----
\* The request is read first and answered in a later step of its thread, so
\* that a request nothing answers shows as one that stays received.
ServePosts == {r \in TransportRequests : r.http = "POST"}
ServeObjectPosts == {r \in ServePosts : r.body = "object"}

\* the request arrives and mcp_endpoint starts on it
Receive ==
    /\ pc = "idle"
    /\ \E r \in ServePosts :
        /\ r \in ServeObjectPosts /\ CreatesSession(r.session, r.data) => Len(issued) < MaxSessions
        /\ pc' = "received"
        /\ req' = r
    /\ UNCHANGED <<sessions, issued, NETBOX_TOKEN, resp, calls, streams, threads, history>>

ServeUnparsed ==
    /\ pc = "received"
    /\ AnswerUnparsed(req)

ServeNotObject ==
    /\ pc = "received"
    /\ AnswerNotObject(req)

ServeMessage ==
    /\ pc = "received"
    /\ req \in ServeObjectPosts /\ ~CreatesSession(req.session, req.data)
    /\ AnswerMessage(req)

ServeInitialize ==
    /\ pc = "received"
    /\ req \in ServeObjectPosts /\ CreatesSession(req.session, req.data)
    /\ AnswerInitialize(req)

ServeNext ==
    \/ Receive
    \/ ServeUnparsed
    \/ ServeNotObject
    \/ ServeMessage
    \/ ServeInitialize
    \/ Deliver

\* the thread of a received request runs (its backend calls return or time
\* out after 30 s), and the response written is sent
ServeFairness ==
    /\ WF_vars(ServeUnparsed \/ ServeNotObject \/ ServeMessage \/ ServeInitialize)
    /\ WF_vars(Deliver)

ServeSpec == Init /\ [][ServeNext]_vars /\ ServeFairness


\* ---- the event stream of a GET, step by step ----
\* Each GET is served in a thread of its own (app.run(threaded=True)); the
\* server iterates sse_generator and writes what it yields to the client.

\* GET from a client with no stream open: the stream response, whose body
\* is the generator (not yet run), or the server-identity document; the
\* session id of the request is handed to the generator and looked up
\* nowhere
StreamGet(c) ==
    /\ streams[c].conn = "none"
    /\ \E a \in AcceptHeaders, session_id \in StreamHeaders :
        streams' = [streams EXCEPT ![c] =
            IF Negotiates(a)
            THEN Stream(a, EventStream, "open", sse_generator(session_id), 0, 0, NoEvent)
            ELSE Stream(a, ServerInfo, "none", "none", 0, 0, NoEvent)]
    /\ UNCHANGED <<sessions, issued, NETBOX_TOKEN, pc, req, resp, calls, threads, history>>

\* the first yield of sse_generator: no sleep comes before it
FirstHeartbeat(c) ==
    /\ streams[c].conn = "open" /\ streams[c].at = "start"
    /\ streams' = [streams EXCEPT ![c].at = Resume, ![c].timer = 0,
                                  ![c].sent = 1, ![c].last = Heartbeat]
    /\ UNCHANGED <<sessions, issued, NETBOX_TOKEN, pc, req, resp, calls, threads, history>>

\* time.sleep(30): one tick of the interval passes
Tick(c) ==
    /\ streams[c].conn = "open" /\ streams[c].at = "sleeping"
    /\ streams[c].timer < Interval
    /\ streams' = [streams EXCEPT ![c].timer = @ + 1]
    /\ UNCHANGED <<sessions, issued, NETBOX_TOKEN, pc, req, resp, calls, threads, history>>

\* time.sleep(30) returns and the loop yields the next heartbeat
NextHeartbeat(c) ==
    /\ streams[c].conn = "open" /\ streams[c].at = "sleeping"
    /\ streams[c].timer = Interval
    /\ streams' = [streams EXCEPT ![c].at = Resume, ![c].timer = 0,
                                  ![c].sent = 1 - @, ![c].last = Heartbeat]
    /\ UNCHANGED <<sessions, issued, NETBOX_TOKEN, pc, req, resp, calls, threads, history>>

\* the client goes away.  Nothing in the server runs at that moment: the
\* generator stays where it is (before its first yield, or in its sleep).
\* Nobody receives events from here on, so the record no longer counts
\* them, nor the time slept.
Disconnect(c) ==
    /\ streams[c].conn = "open"
    /\ streams' = [streams EXCEPT ![c].conn = "gone", ![c].timer = 0,
                                  ![c].sent = 0, ![c].last = NoEvent]
    /\ UNCHANGED <<sessions, issued, NETBOX_TOKEN, pc, req, resp, calls, threads, history>>

\* the generator of a departed client yields (its sleep, if it was in one,
\* is over) and the write goes into the closed connection without an error:
\* the heartbeat is lost and the generator sleeps again
LostHeartbeat(c) ==
    /\ streams[c].conn \in {"gone", "reset"}
    /\ streams[c].at \in {"start", "sleeping"}
    /\ "lost" \in Write(streams[c].conn)
    /\ streams' = [streams EXCEPT ![c].conn = "reset", ![c].at = Resume]
    /\ UNCHANGED <<sessions, issued, NETBOX_TOKEN, pc, req, resp, calls, threads, history>>

\* the generator of a departed client yields and the write fails: the
\* server drops the connection and closes the generator (GeneratorExit at
\* its yield); the thread of the request ends
Teardown(c) ==
    /\ streams[c].conn \in {"gone", "reset"}
    /\ streams[c].at \in {"start", "sleeping"}
    /\ "failed" \in Write(streams[c].conn)
    /\ streams' = [streams EXCEPT ![c] =
                       Stream(@.accept, @.resp, "none", "done", 0, 0, NoEvent)]
    /\ UNCHANGED <<sessions, issued, NETBOX_TOKEN, pc, req, resp, calls, threads, history>>

\* no message request is in progress; the session table is empty, or holds
\* the session of an earlier initialize
StreamInit ==
    /\ issued \in {<<>>, <<uuid4(<<>>)>>}
    /\ sessions = IF issued = <<>> THEN EmptyMap ELSE Create(EmptyMap, issued[1], 1)
    /\ NETBOX_TOKEN = "token"
    /\ pc = "idle"
    /\ req = NoRequest
    /\ resp = NoResponse
    /\ calls = NoRun
    /\ streams = [c \in Clients |-> NoStream]
    /\ threads = [w \in Workers |-> NoThread]
    /\ history = <<>>

StreamNext ==
    \/ \E c \in Clients : StreamGet(c)
    \/ \E c \in Clients : FirstHeartbeat(c)
    \/ \E c \in Clients : Tick(c)
    \/ \E c \in Clients : NextHeartbeat(c)
    \/ \E c \in Clients : Disconnect(c)
    \/ \E c \in Clients : LostHeartbeat(c)
    \/ \E c \in Clients : Teardown(c)

\* the generator of every stream keeps running (its thread is scheduled and
\* time passes), and a write to a connection the client has closed fails,
\* the second such write at the latest; clients are free to connect and
\* disconnect
StreamFairness ==
    \A c \in Clients :
        /\ WF_vars(FirstHeartbeat(c))
        /\ WF_vars(Tick(c))
        /\ WF_vars(NextHeartbeat(c))
        /\ WF_vars(Teardown(c))

StreamSpec == StreamInit /\ [][StreamNext]_vars /\ StreamFairness

\* ---- session requests served concurrently, statement by statement ----
\* The threads share the dict `sessions`.  One dict operation (a membership
\* test, a store, a del) is atomic; a thread can be preempted between any two.

\* the ids clients hold: those returned in the header of an answered initialize
KnownIds ==
    {history[i].id : i \in {j \in DOMAIN history : history[j].http = "POST" /\ history[j].id # None}}
\* the session requests being served or already answered
Served == Len(history) + Cardinality({w \in Workers : threads[w].at # "idle"})

\* a DELETE arrives; its header names no session or a session a client holds
ReceiveDelete(w) ==
    /\ threads[w].at = "idle" /\ Served < MaxRequests
    /\ \E s \in {None} \cup KnownIds :
        threads' = [threads EXCEPT ![w] = Thread("check", "DELETE", s, None, 0, None)]
    /\ UNCHANGED <<sessions, issued, NETBOX_TOKEN, pc, req, resp, calls, streams, history>>

\* `if session_id and session_id in sessions:`
CheckMembership(w) ==
    /\ threads[w].at = "check"
    /\ threads' = [threads EXCEPT ![w].at =
                      IF Truthy(threads[w].session) /\ threads[w].session \in DOMAIN sessions
                      THEN "del" ELSE "return",
                   ![w].status =
                      IF Truthy(threads[w].session) /\ threads[w].session \in DOMAIN sessions
                      THEN 0 ELSE 204]
    /\ UNCHANGED <<sessions, issued, NETBOX_TOKEN, pc, req, resp, calls, streams, history>>

\* `del sessions[session_id]`: KeyError when the key is no longer there; the
\* DELETE branch has no try block, so Flask answers 500
DeleteRecord(w) ==
    /\ threads[w].at = "del"
    /\ IF threads[w].session \in DOMAIN sessions
       THEN /\ sessions' = Terminate(sessions, threads[w].session)
            /\ threads' = [threads EXCEPT ![w].at = "return", ![w].status = 204]
       ELSE /\ sessions' = sessions
            /\ threads' = [threads EXCEPT ![w].at = "return", ![w].status = 500]
    /\ UNCHANGED <<issued, NETBOX_TOKEN, pc, req, resp, calls, streams, history>>

\* the initialize message of a POST
InitializeMessage == ("jsonrpc" :> "2.0") @@ ("id" :> "7") @@ Method("initialize")

\* a POST of initialize arrives, with no session header, or with one naming
\* a session a client holds (live or terminated) or one never issued
ReceiveInitialize(w) ==
    /\ threads[w].at = "idle" /\ Served < MaxRequests
    /\ \E s \in {None, "never-issued"} \cup KnownIds :
        threads' = [threads EXCEPT ![w] = Thread("handle", "POST", s, None, 0, None)]
    /\ UNCHANGED <<sessions, issued, NETBOX_TOKEN, pc, req, resp, calls, streams, history>>

\* response = handle_mcp_message(data, session_id), which touches no shared
\* state, then `if not session_id and data.get('method') == 'initialize':`
HandleMessage(w) ==
    /\ threads[w].at = "handle"
    /\ \E h \in Dispatch(InitializeMessage, threads[w].session, sessions, NETBOX_TOKEN) :
        threads' = [threads EXCEPT
            ![w].at = IF CreatesSession(threads[w].session, InitializeMessage)
                      THEN "uuid" ELSE "return",
            ![w].status = IF CreatesSession(threads[w].session, InitializeMessage)
                          THEN 0 ELSE 200]
    /\ UNCHANGED <<sessions, issued, NETBOX_TOKEN, pc, req, resp, calls, streams, history>>

\* new_session_id = str(uuid.uuid4())
NewSessionId(w) ==
    /\ threads[w].at = "uuid"
    /\ issued' = Append(issued, uuid4(issued))
    /\ threads' = [threads EXCEPT ![w].at = "store", ![w].new_session_id = uuid4(issued)]
    /\ UNCHANGED <<sessions, NETBOX_TOKEN, pc, req, resp, calls, streams, history>>

\* the ordinal of the creation of the session `id` (its created_at)
Ordinal(id) == CHOOSE i \in DOMAIN issued : issued[i] = id

\* sessions[new_session_id] = {...}; response_headers = {'Mcp-Session-Id': ...}
StoreRecord(w) ==
    /\ threads[w].at = "store"
    /\ sessions' = Create(sessions, threads[w].new_session_id, Ordinal(threads[w].new_session_id))
    /\ threads' = [threads EXCEPT ![w].at = "return", ![w].status = 200,
                                  ![w].header = threads[w].new_session_id]
    /\ UNCHANGED <<issued, NETBOX_TOKEN, pc, req, resp, calls, streams, history>>

\* the response is returned to the client (the history keeps the id the
\* request created or named, None for an initialize that created none)
Return(w) ==
    /\ threads[w].at = "return"
    /\ history' = Append(history,
                    [http |-> threads[w].http, status |-> threads[w].status,
                     id |-> IF threads[w].http = "POST" THEN threads[w].header
                            ELSE threads[w].session])
    /\ threads' = [threads EXCEPT ![w] = NoThread]
    /\ UNCHANGED <<sessions, issued, NETBOX_TOKEN, pc, req, resp, calls, streams>>

ConcInit ==
    /\ sessions = EmptyMap
    /\ issued = <<>>
    /\ NETBOX_TOKEN = "token"
    /\ pc = "idle"
    /\ req = NoRequest
    /\ resp = NoResponse
    /\ calls = NoRun
    /\ streams = [c \in Clients |-> NoStream]
    /\ threads = [w \in Workers |-> NoThread]
    /\ history = <<>>

ConcNext ==
    \/ \E w \in Workers : ReceiveDelete(w)
    \/ \E w \in Workers : CheckMembership(w)
    \/ \E w \in Workers : DeleteRecord(w)
    \/ \E w \in Workers : ReceiveInitialize(w)
    \/ \E w \in Workers : HandleMessage(w)
    \/ \E w \in Workers : NewSessionId(w)
    \/ \E w \in Workers : StoreRecord(w)
    \/ \E w \in Workers : Return(w)

ConcSpec == ConcInit /\ [][ConcNext]_vars
\* ---- vocabulary of the properties ----
Responded == pc = "responded"
PostedObject == Responded /\ req.http = "POST" /\ req.body = "object"
RequestMethod == Get(req.data, "method")
RequestId == Get(req.data, "id")
\* the methods handle_mcp_message routes
Routed == {"initialize", "tools/list", "tools/call", "prompts/list", "prompts/get", "resources/list"}

\* a tools/call whose params are an object, reaching execute_tool
ToolCalled ==
    /\ PostedObject /\ RequestMethod = "tools/call"
    /\ Truthy(NETBOX_TOKEN)
    /\ "params" \in DOMAIN req.data => ~req.data["params"].isNone
CallParams == IF "params" \in DOMAIN req.data THEN req.data["params"].map ELSE EmptyMap
CalledTool == Get(CallParams, "name")
CallArguments ==
    IF "arguments" \in DOMAIN CallParams THEN CallParams["arguments"] ELSE PyDict(EmptyMap)

\* the response is a JSON-RPC envelope
Envelope == resp.kind = "json" /\ "jsonrpc" \in DOMAIN resp.body
IsError(code) ==
    /\ Envelope
    /\ "error" \in DOMAIN resp.body /\ "result" \notin DOMAIN resp.body
    /\ resp.body.error.code = code

\* ---- C1 ----
\* C1: a session record is added exactly when a POST with method initialize
\* arrives presenting no session id (no Mcp-Session-Id header, or an empty
\* one): every step that adds a record answers such a request, adds exactly
\* one record and returns a result; every such request adds a record; and
\* the live records stem from pairwise different creations.
C1_SessionAddedIffInitializeWithoutId ==
    [][ LET added == DOMAIN sessions' \ DOMAIN sessions
            creating == /\ pc' = "responded"
                        /\ req'.http = "POST" /\ req'.body = "object"
                        /\ Get(req'.data, "method") = "initialize"
                        /\ ~Truthy(req'.session)
        IN  /\ added # {} => creating
            /\ creating => /\ Cardinality(added) = 1
                           /\ "result" \in DOMAIN resp'.body
                           /\ "error" \notin DOMAIN resp'.body
            /\ \A s, t \in DOMAIN sessions' :
                   s # t => sessions'[s].created_at # sessions'[t].created_at
      ]_vars

C1_Witness ==
    /\ PostedObject /\ RequestMethod = "initialize" /\ req.session = ""
    /\ "Mcp-Session-Id" \in DOMAIN resp.headers
    /\ resp.headers["Mcp-Session-Id"] \in DOMAIN sessions

\* ---- C2 ----
\* C2: session ids are unique: the ids issued by consecutive initialize calls
\* are pairwise distinct, the id just created is the one record made by this
\* creation (so it was not live before), every live id is an issued id with
\* one record, and every record has initialized = true.
C2_SessionIdsUnique ==
    /\ \A i, j \in DOMAIN issued : i # j => issued[i] # issued[j]
    /\ DOMAIN sessions \subseteq Range(issued)
    /\ \A s \in DOMAIN sessions : sessions[s].initialized = TRUE
    /\ \A i \in DOMAIN issued :
           issued[i] \in DOMAIN sessions => sessions[issued[i]].created_at = i
    /\ Responded /\ "Mcp-Session-Id" \in DOMAIN resp.headers =>
           /\ resp.headers["Mcp-Session-Id"] = issued[Len(issued)]
           /\ issued[Len(issued)] \in DOMAIN sessions

C2_Witness ==
    /\ Responded /\ "Mcp-Session-Id" \in DOMAIN resp.headers
    /\ Len(issued) >= 2 /\ Cardinality(DOMAIN sessions) >= 2

\* ---- C3 ----
\* C3: termination is idempotent: every DELETE, whatever the header names, is
\* answered 204 with an empty body; afterwards the named id is not in the
\* table and every other record is untouched; a DELETE of an id that is not
\* in the table (terminated before, never issued, or none) changes nothing.
C3_DeleteIdempotent ==
    [][ pc' = "responded" /\ req'.http = "DELETE" =>
            /\ resp'.status = 204 /\ resp'.body = [text |-> ""] /\ resp'.headers = EmptyMap
            /\ req'.session \notin DOMAIN sessions'
            /\ DOMAIN sessions' = DOMAIN sessions \ {req'.session}
            /\ \A s \in DOMAIN sessions' : sessions'[s] = sessions[s]
            /\ req'.session \notin DOMAIN sessions => sessions' = sessions
      ]_vars

C3_Witness ==
    /\ Responded /\ req.http = "DELETE"
    /\ req.session \in Range(issued) /\ req.session \notin DOMAIN sessions
    /\ DOMAIN sessions # {}
    /\ resp.status = 204

\* ---- C4 ----
\* C4: a POST of a JSON object whose method is none of the six routed ones
\* (a missing method included) is answered with an error envelope of code
\* -32601 that echoes the request id, and never with a result.
\* Refuted by the empty object {}: `if not data` answers it 400 / -32700
\* without an id member.
C4_UnroutedMethodNotFound ==
    (/\ Responded /\ req.http = "POST" /\ req.body \in {"object", "empty_object"}
     /\ RequestMethod \notin Routed)
    => (/\ IsError(-32601)
        /\ "id" \in DOMAIN resp.body
        /\ resp.body.id = RequestId)

\* ---- C5 ----
\* C5: a POST whose body is malformed or absent is answered with an HTTP 4xx
\* status and an error envelope of code -32700, and the session table is
\* unchanged.
\* Refuted by a malformed JSON body: get_json() raises, `except Exception`
\* answers 500 / -32603.
C5_UnparseableBodyParseError ==
    [][ pc' = "responded" /\ req'.http = "POST" /\ req'.body \in {"malformed", "absent"} =>
            /\ resp'.status \in 400..499
            /\ resp'.kind = "json"
            /\ "error" \in DOMAIN resp'.body
            /\ resp'.body.error.code = -32700
            /\ sessions' = sessions
      ]_vars

\* ---- C6 ----
\* C6: whatever is raised while a tools/call executes its tool (the client's
\* Exception for a backend failure, AttributeError, ValueError) is
\* answered HTTP 200 with an error envelope of code -32603 that echoes the
\* request id.
C6_HandlerExceptionInternalError ==
    Responded /\ calls.raised =>
        /\ resp.status = 200
        /\ IsError(-32603)
        /\ "id" \in DOMAIN resp.body
        /\ resp.body.id = RequestId

C6_Witness ==
    /\ ToolCalled /\ calls.raised /\ calls.exc = "Exception"
    /\ Len(calls.queries) >= 1
    /\ RequestId = "7" /\ resp.body.id = "7"

\* ---- C7 ----
\* the descriptors and the bindings name the same tools, one to one
RegistryConsistent ==
    /\ ToolNames = DOMAIN tools
    /\ Cardinality(ToolNames) = Len(get_mcp_tools)
    /\ \A n \in DOMAIN tools :
           tools[n] \in DOMAIN SearchTable \cup DOMAIN DetailTable
                        \cup {"search_route_targets", "search_ipam_roles", "search_device_bays"}

\* C7: the names tools/list returns are exactly the names tools/call can
\* invoke: descriptor names are pairwise distinct, they are the keys of the
\* `tools` dictionary, each key is bound to an existing handler, a call of a
\* listed name never raises the unknown-tool ValueError, and a call of any
\* other name does.
C7_RegistryMatchesDispatch ==
    /\ RegistryConsistent
    /\ ToolCalled =>
           (CalledTool \in ToolNames <=> ~(calls.raised /\ calls.exc = "ValueError"))

C7_Witness ==
    /\ ToolCalled /\ CalledTool \in ToolNames
    /\ CallArguments = PyDict(EmptyMap)
    /\ "result" \in DOMAIN resp.body
    /\ Len(calls.queries) = 1

\* ---- C8 ----
\* C8: every response to a POST is an envelope with exactly one of result and
\* error, and an error has an integer code and a non-empty message.
C8_EnvelopeTaggedUnion ==
    Responded /\ req.http = "POST" =>
        /\ Envelope
        /\ ("result" \in DOMAIN resp.body) # ("error" \in DOMAIN resp.body)
        /\ "error" \in DOMAIN resp.body =>
               /\ DOMAIN resp.body.error = {"code", "message"}
               /\ resp.body.error.code \in Int
               /\ Len(resp.body.error.message) >= 1

C8_Witness ==
    /\ PostedObject /\ RequestMethod = "prompts/get"
    /\ IsError(-32602)

\* ---- C9 ----
\* C9: a call of a registered tool with an empty argument mapping (given as
\* {} or left out) sends the backend nothing but queries whose only
\* parameter is limit = 10.
C9_EmptyArgumentsOnlyLimit ==
    ToolCalled /\ CalledTool \in ToolNames /\ CallArguments = PyDict(EmptyMap) =>
        \A i \in DOMAIN calls.queries :
            calls.queries[i].params = ("limit" :> DefaultLimit)

C9_Witness ==
    /\ ToolCalled /\ CalledTool \in ToolNames /\ CallArguments = PyDict(EmptyMap)
    /\ Len(calls.queries) = 2
    /\ \A i \in DOMAIN calls.queries : DOMAIN calls.queries[i].params = {"limit"}

\* ---- C10 ----
\* the search/list tools, and the resource each one lists
SearchTools == {n \in ToolNames : n \in DOMAIN tools /\ tools[n] \notin DOMAIN DetailTable}
OwnResource(tool) ==
    CASE tool = "search_route_targets" -> "route targets"
      [] tool = "search_ipam_roles" -> "IPAM roles"
      [] tool = "search_device_bays" -> "device bays"
      [] OTHER -> SearchTable[tools[tool]].resource
\* the backend answered every listing query of the call with count 0
\* (a lookup of a device by name is not a listing query: it has no limit)
BackendEmpty ==
    \A i \in DOMAIN calls.queries :
        calls.answers[i] = "empty" /\ "limit" \in DOMAIN calls.queries[i].params

\* C10: when the backend has nothing but {"count":0,"results":[]} to answer,
\* a search/list tool returns exactly one text item that contains
\* "No <resource> found matching the criteria" with the tool's own resource.
\* Refuted by search_route_targets (returns None without querying) and by
\* search_ipam_roles (answers "No route targets found ...").
C10_EmptyResultSentinel ==
    (/\ ToolCalled /\ CalledTool \in SearchTools
     /\ ~CallArguments.isNone
     /\ BackendEmpty)
    => (/\ Envelope /\ "result" \in DOMAIN resp.body
        /\ resp.body.result.content.py = "list"
        /\ Len(resp.body.result.content.items) = 1
        /\ resp.body.result.content.items[1].type = "text"
        /\ Len(resp.body.result.content.items[1].text) >= 3
        /\ SubSeq(resp.body.result.content.items[1].text, 1, 3)
               = EmptyResultText(OwnResource(CalledTool)))

\* ---- C11 ----
\* C11: end to end: a POST initialize without a session id is answered with
\* result.protocolVersion and an Mcp-Session-Id header naming the session
\* just created; a POST tools/list presenting an id that initialize issued
\* is answered with result.tools, a non-empty list of pairwise distinct names.
C11_InitializeThenToolsList ==
    /\ PostedObject /\ RequestMethod = "initialize" /\ ~Truthy(req.session) =>
           /\ resp.status = 200 /\ Envelope /\ "result" \in DOMAIN resp.body
           /\ "protocolVersion" \in DOMAIN resp.body.result
           /\ resp.body.result.protocolVersion = "2025-03-26"
           /\ DOMAIN resp.headers = {"Mcp-Session-Id"}
           /\ resp.headers["Mcp-Session-Id"] = issued[Len(issued)]
           /\ resp.headers["Mcp-Session-Id"] \in DOMAIN sessions
    /\ PostedObject /\ RequestMethod = "tools/list" /\ req.session \in Range(issued) =>
           /\ resp.status = 200 /\ Envelope /\ "result" \in DOMAIN resp.body
           /\ Len(resp.body.result.tools) >= 1
           /\ \A i, j \in DOMAIN resp.body.result.tools :
                  i # j => resp.body.result.tools[i].name # resp.body.result.tools[j].name

C11_Witness ==
    /\ PostedObject /\ RequestMethod = "tools/list"
    /\ req.session \in DOMAIN sessions
    /\ "result" \in DOMAIN resp.body
    /\ Len(resp.body.result.tools) = 72

\* ---- C12 ----
\* the response bodies the dispatcher can give to the message `data` when it
\* arrives with session header `session_id` while the table is `table`
Bodies(data, session_id, table) ==
    {h.envelope : h \in Dispatch(data, session_id, table, NETBOX_TOKEN)}

\* C12: for a method other than initialize the response body does not depend
\* on the session header or on the session table: the bodies possible for
\* the request as it arrived are the bodies possible for the same message
\* sent without a header to an empty table, the body returned is one of
\* them, and no session header is returned.
C12_SessionNeverInfluencesDispatch ==
    PostedObject /\ RequestMethod # "initialize" =>
        /\ Bodies(req.data, req.session, sessions) = Bodies(req.data, None, EmptyMap)
        /\ resp.body \in Bodies(req.data, None, EmptyMap)
        /\ resp.status = 200 /\ resp.headers = EmptyMap

C12_Witness ==
    /\ PostedObject /\ RequestMethod = "tools/call"
    /\ req.session \in Range(issued) /\ req.session \notin DOMAIN sessions
    /\ DOMAIN sessions # {}
    /\ "result" \in DOMAIN resp.body

\* ---- C13 ----
\* C13: with the credential configured, a tools/call naming a tool that is
\* not in the registry is answered with the application error -32000, and
\* no backend request is made.
\* Refuted: execute_tool raises ValueError, which the dispatcher's
\* `except Exception` turns into the protocol-level -32603.
C13_UnknownToolApplicationError ==
    (ToolCalled /\ CalledTool # None /\ CalledTool \notin ToolNames)
    => (IsError(-32000) /\ calls.queries = <<>>)

\* ---- C14 ----
\* a tools/call arriving while the credential is not configured
UnconfiguredCall ==
    PostedObject /\ RequestMethod = "tools/call" /\ ~Truthy(NETBOX_TOKEN)
\* the error of the missing credential: -32000 with the request id, nothing
\* executed and nothing asked of the backend
CredentialError ==
    /\ resp.status = 200 /\ IsError(-32000)
    /\ "id" \in DOMAIN resp.body /\ resp.body.id = RequestId
    /\ calls = NoRun

\* C14 as stated: without the credential every tools/call is answered with
\* -32000 echoing the id, no handler runs and no backend request is made.
\* Refuted by a tools/call whose params is null: params.get raises before
\* the credential is looked at, and the answer is -32603.
C14_EveryCallWithoutCredential ==
    UnconfiguredCall => CredentialError

\* C14, amended: without the credential every tools/call whose params is an
\* object or is left out (whatever the tool name, known, unknown or missing,
\* and whatever the arguments) is answered with -32000 echoing the id, no
\* handler runs and no backend request is made; one whose params is null is
\* answered -32603; and every other method is answered as it is with the
\* credential configured.
C14_CallWithoutCredential ==
    /\ UnconfiguredCall =>
           IF "params" \in DOMAIN req.data /\ req.data["params"].isNone
           THEN IsError(-32603) /\ resp.body.id = RequestId /\ calls = NoRun
           ELSE CredentialError
    /\ PostedObject /\ RequestMethod # "tools/call" =>
           /\ {h.envelope : h \in Dispatch(req.data, req.session, sessions, "")}
                  = {h.envelope : h \in Dispatch(req.data, req.session, sessions, "token")}
           /\ \A h \in Dispatch(req.data, req.session, sessions, "") : h.run = NoRun

C14_Witness ==
    /\ UnconfiguredCall /\ CredentialError
    /\ CalledTool \in ToolNames
    /\ CallArguments # PyDict(EmptyMap) /\ ~CallArguments.isNone
    /\ RequestId = "7"

\* ---- C15 ----
\* the codes JSON-RPC reserves for the protocol
ProtocolCodes == {-32700, -32600, -32601, -32602, -32603}
PromptRequested ==
    /\ PostedObject /\ RequestMethod = "prompts/get"
    /\ "params" \in DOMAIN req.data => ~req.data["params"].isNone

\* C15: prompts/get without a name, or with a name that is not registered,
\* is answered with an error of an application-level code (not one of the
\* protocol codes) and no result; with a registered name it is answered
\* with a result carrying that prompt's description and its messages.
\* Refuted: both errors carry the protocol code -32602.
C15_PromptsGetApplicationError ==
    PromptRequested =>
        IF CalledTool \in PromptNames
        THEN ~CallArguments.isNone =>
                /\ Envelope /\ "result" \in DOMAIN resp.body
                /\ \E i \in DOMAIN get_mcp_prompts :
                       /\ get_mcp_prompts[i].name = CalledTool
                       /\ resp.body.result.description = get_mcp_prompts[i].description
                /\ Len(resp.body.result.messages) >= 1
        ELSE /\ Envelope /\ "error" \in DOMAIN resp.body /\ "result" \notin DOMAIN resp.body
             /\ resp.body.error.code \notin ProtocolCodes

\* ---- C16 ----
\* C16: a tools/call of a registered tool that is answered with a result has
\* a list as result.content, never null.
\* Refuted: search_route_targets returns None; four search handlers fall off
\* their end, returning None, when the backend has matches.
C16_ContentIsAList ==
    (ToolCalled /\ CalledTool \in ToolNames /\ Envelope /\ "result" \in DOMAIN resp.body)
    => resp.body.result.content.py = "list"


\* ---- C17 ----
\* the tools that resolve an object by its id or by a human identifier, and
\* for each: the id argument, the identifier arguments with the filter each
\* one becomes (in the order the handler tries them), and the lookup endpoint
NameResolving ==
    {n \in ToolNames : n \in DOMAIN tools /\
        \/ tools[n] = "search_device_bays"
        \/ tools[n] \in DOMAIN DetailTable /\ DetailTable[tools[n]].alts # <<>>}
Resolution(tool) ==
    IF tools[tool] = "search_device_bays"
    THEN [idKey |-> "device_id", alts |-> <<<<"device_name", "name">>>>, lookup |-> "dcim/devices/"]
    ELSE LET D == DetailTable[tools[tool]]
         IN  [idKey |-> D.idKey, alts |-> D.alts, lookup |-> D.lookup]
\* the call supplies an identifier and no id
OnlyNameSupplied ==
    /\ ToolCalled /\ CalledTool \in NameResolving
    /\ ~CallArguments.isNone
    /\ Resolution(CalledTool).idKey \notin DOMAIN CallArguments.map
    /\ \E i \in DOMAIN Resolution(CalledTool).alts :
           Truthy(Get(CallArguments.map, Resolution(CalledTool).alts[i][1]))
\* the identifier the lookup goes by: the first one supplied
AttemptedAlt ==
    LET R == Resolution(CalledTool)
    IN  CHOOSE i \in DOMAIN R.alts :
            /\ Truthy(Get(CallArguments.map, R.alts[i][1]))
            /\ \A j \in 1..(i - 1) : ~Truthy(Get(CallArguments.map, R.alts[j][1]))
AttemptedIdentifier ==
    Get(CallArguments.map, Resolution(CalledTool).alts[AttemptedAlt][1])
\* the request mentions the id `v`, in its path or as a filter value
Mentions(q, v) ==
    \/ \E k \in DOMAIN q.path : q.path[k] = v
    \/ \E p \in DOMAIN q.params : q.params[p] = v
\* the call was answered with a result whose content is one text item
OneTextItemResult ==
    /\ resp.status = 200 /\ Envelope
    /\ "result" \in DOMAIN resp.body /\ "error" \notin DOMAIN resp.body
    /\ resp.body.result.content = calls.content
    /\ calls.content.py = "list" /\ Len(calls.content.items) = 1
    /\ calls.content.items[1].type = "text"

SuppliedAs(p, v) ==
    \E k \in DOMAIN CallArguments.map :
        /\ CallArguments.map[k] = v
        /\ tools[CalledTool] \in DOMAIN SearchTable =>
               \E i \in DOMAIN SearchTable[tools[CalledTool]].filters :
                   SearchTable[tools[CalledTool]].filters[i] = <<k, p>>
\* the value `v` of a filter of the i-th request is the id of the first
\* match of the lookup the call started with
ResolvedId(i, v) ==
    /\ v = FirstMatchId
    /\ i >= 2 /\ calls.answers[1] = "items"
    /\ "limit" \notin DOMAIN calls.queries[1].params

\* C18: in every backend request of every tool call, each query parameter
\* is the limit, or repeats (under its static filter name) the value of a
\* key present in the caller's arguments, or is the id found by the
\* name-resolution lookup; no filter is sent for a key the caller left out.
C18_NoSynthesizedFilter ==
    ToolCalled /\ CalledTool \in ToolNames /\ ~CallArguments.isNone =>
        \A i \in DOMAIN calls.queries :
            \A p \in DOMAIN calls.queries[i].params :
                \/ p = "limit"
                \/ SuppliedAs(p, calls.queries[i].params[p])
                \/ ResolvedId(i, calls.queries[i].params[p])

C18_Witness ==
    /\ ToolCalled /\ CalledTool = "get_site_details"
    /\ CallArguments = PyDict("site_name" :> "7")
    /\ Len(calls.queries) = 4
    /\ calls.queries[1].params = ("name" :> "7")
    /\ calls.queries[2].params = EmptyMap
    /\ calls.queries[3].params = ("site_id" :> FirstMatchId) @@ ("limit" :> "100")

\* ---- C19 ----
\* C19: for every backend request a tool call makes, the client's get either
\* returns the backend's JSON (a 2xx answer) or raises the one backend error
\* (Exception "NetBox API error: ..."), whatever went wrong.  Refuted by a
\* 2xx answer whose body is not JSON: response.json() raises JSONDecodeError,
\* which `except httpx.HTTPError` lets through unchanged.
C19_UniformBackendError ==
    \A i \in DOMAIN calls.answers :
        \/ calls.answers[i] \in {"empty", "items"} /\ ~get(calls.answers[i]).raised
        \/ get(calls.answers[i]).raised /\ get(calls.answers[i]).exc = "Exception"

\* ---- C20 ----
\* what a GET does: a stream is open only for a GET whose Accept header
\* lists text/event-stream; any other GET got the server-identity document
\* and no stream, hence no event
GetNegotiation ==
    \A c \in Clients :
        /\ streams[c].conn = "open" =>
               Negotiates(streams[c].accept) /\ streams[c].resp = EventStream
        /\ streams[c].resp # NoResponse /\ ~Negotiates(streams[c].accept) =>
               /\ streams[c].resp = ServerInfo
               /\ streams[c].conn = "none" /\ streams[c].at = "none"
               /\ streams[c].sent = 0 /\ streams[c].last = NoEvent
\* the events of a stream: nothing but heartbeats (a type and a timestamp),
\* and no time passes on an open stream before the first one
OnlyHeartbeats ==
    \A c \in Clients :
        /\ streams[c].last \in {NoEvent, Heartbeat}
        /\ DOMAIN Heartbeat = {"type", "timestamp"} /\ Heartbeat.type = "heartbeat"
        /\ streams[c].conn = "open" /\ streams[c].last = NoEvent =>
               streams[c].timer = 0 /\ streams[c].sent = 0
\* an event is sent on the stream of client c in this step
Emits(c) ==
    /\ streams[c].conn = "open" /\ streams'[c].conn = "open"
    /\ streams'[c].sent # streams[c].sent
\* the cadence: every event is a heartbeat; the first is sent before any
\* sleep, every later one when a full interval has passed since the last
Cadence ==
    \A c \in Clients :
        Emits(c) =>
            /\ streams'[c].last = Heartbeat
            /\ streams'[c].timer = 0
            /\ \/ streams[c].last = NoEvent /\ streams[c].timer = 0
               \/ streams[c].last = Heartbeat /\ streams[c].timer = Interval
\* while the client stays connected, another heartbeat always follows
HeartbeatsForever ==
    \A c \in Clients : \A k \in {0, 1} :
        (streams[c].conn = "open" /\ streams[c].sent = k)
            ~> (streams[c].conn # "open" \/ streams[c].sent # k)

\* C20: a GET whose Accept header lists text/event-stream opens a stream on
\* which, for as long as the client stays connected, heartbeats are sent
\* again and again: the first at once, each later one a full interval after
\* the one before; every event is a heartbeat made of a type and a timestamp;
\* a GET without that Accept value opens no stream and is answered with the
\* server-identity document.
C20_StreamingLiveness ==
    /\ [](GetNegotiation /\ OnlyHeartbeats)
    /\ [][Cadence]_vars
    /\ HeartbeatsForever

C20_Witness ==
    \E c \in Clients :
        /\ streams[c].conn = "open" /\ streams[c].resp = EventStream
        /\ streams[c].at = "sleeping" /\ streams[c].sent = 0
        /\ streams[c].timer = 0 /\ streams[c].last = Heartbeat
        /\ \E d \in Clients : streams[d].resp = ServerInfo /\ streams[d].conn = "none"

\* ---- C21 ----
\* no thread is serving a session request
Quiescent == \A w \in Workers : threads[w].at = "idle"
\* the answered requests that created a session
Creations == {i \in DOMAIN history : history[i].http = "POST" /\ history[i].id # None}
\* the orders in which the answered requests can be lined up
Orders ==
    {p \in [DOMAIN history -> DOMAIN history] :
        \A i, j \in DOMAIN history : p[i] = p[j] => i = j}
\* the table after the answered requests are applied one at a time, in the
\* order `p`, from the i-th on
RECURSIVE Replay(_, _, _)
Replay(p, i, table) ==
    IF i > Len(history) THEN table
    ELSE LET op == history[p[i]]
         IN  Replay(p, i + 1,
                    CASE op.http = "POST" /\ op.id # None -> Create(table, op.id, Ordinal(op.id))
                      [] op.http = "POST" /\ op.id = None -> table
                      [] OTHER -> Terminate(table, op.id))

\* C21: however the statements of concurrently served initialize and DELETE
\* requests interleave, the ids handed out are pairwise distinct (those in
\* answered responses and those held by threads still running); and once
\* all requests are answered, every created session that no DELETE named is
\* in the table, and the table is what applying the same requests one after
\* another, in some order, gives.
C21_SerializedInEffect ==
    /\ \A i, j \in Creations : i # j => history[i].id # history[j].id
    /\ \A w \in Workers : threads[w].new_session_id # None =>
           /\ \A i \in Creations : history[i].id # threads[w].new_session_id
           /\ \A v \in Workers \ {w} : threads[v].new_session_id # threads[w].new_session_id
    /\ Quiescent =>
           /\ \A i \in Creations :
                  (\A j \in DOMAIN history : ~(history[j].http = "DELETE" /\ history[j].id = history[i].id))
                      => history[i].id \in DOMAIN sessions
           /\ \E p \in Orders : Replay(p, 1, EmptyMap) = sessions

\* an initialize and a DELETE of a live session served at the same time,
\* both done, after an earlier initialize
C21_Witness ==
    \E w, v \in Workers :
        /\ threads[w].at = "return" /\ threads[w].http = "POST"
        /\ threads[v].at = "return" /\ threads[v].http = "DELETE"
        /\ threads[v].session \in KnownIds /\ threads[v].status = 204
        /\ DOMAIN sessions = {threads[w].header}

\* ---- C22 ----
\* C22: every DELETE is answered 204, and the session it names is gone when
\* it is answered, however concurrent DELETEs of the same id interleave.
\* Refuted: two threads both find the id in the table; the second
\* `del sessions[session_id]` raises KeyError and its DELETE is answered 500.
C22_ConcurrentDeleteSucceeds ==
    /\ \A w \in Workers : threads[w].http = "DELETE" /\ threads[w].at = "return" =>
           /\ threads[w].status = 204
           /\ Truthy(threads[w].session) => threads[w].session \notin DOMAIN sessions
    /\ \A i \in DOMAIN history : history[i].http = "DELETE" => history[i].status = 204

\* ---- C23 ----
\* C23: the body of every response to a POST has an id member, equal to the
\* id of the request, and null when the request has none (or has no message
\* at all).
\* Refuted: the 400 parse-error body and the 500 internal-error body built
\* in mcp_endpoint have no id member.
C23_EveryPostEchoesId ==
    Responded /\ req.http = "POST" =>
        /\ Envelope
        /\ "id" \in DOMAIN resp.body
        /\ resp.body.id = Get(req.data, "id")

\* ---- C24 ----
\* the thread serves an initialize that presented no session id
InitializesAfresh(w) == threads[w].http = "POST" /\ ~Truthy(threads[w].session)
\* the step stores a session record
StoresRecord == DOMAIN sessions' # DOMAIN sessions /\ DOMAIN sessions \subseteq DOMAIN sessions'

\* C24: a thread serving an initialize has no session before
\* handle_mcp_message has run; the store of the record comes after it, and
\* only in a request that presented no session id; when the response is
\* about to be returned it has the Mcp-Session-Id header exactly if the
\* request presented no session id, and the header's id is then a key of
\* the table with initialized = TRUE; an initialize that presented a header,
\* whatever session it names, stores nothing and returns no header.
C24_InitializeThenCreate ==
    /\ [](\A w \in Workers :
            /\ threads[w].at = "handle" => threads[w].new_session_id = None
            /\ threads[w].http = "POST" /\ threads[w].at = "return" =>
                   /\ threads[w].status = 200
                   /\ threads[w].header # None <=> InitializesAfresh(w)
                   /\ threads[w].header # None =>
                          /\ threads[w].header \in DOMAIN sessions
                          /\ sessions[threads[w].header].initialized
                   /\ ~InitializesAfresh(w) => threads[w].new_session_id = None)
    /\ [][StoresRecord =>
            \E w \in Workers :
                /\ InitializesAfresh(w)
                /\ threads[w].at = "store" /\ threads'[w].at = "return"
                /\ DOMAIN sessions' = DOMAIN sessions \cup {threads'[w].header}]_vars

C24_Witness ==
    \E w, v \in Workers :
        /\ threads[w].http = "POST" /\ threads[w].at = "return"
        /\ threads[w].header \in DOMAIN sessions /\ threads[w].session = None
        /\ threads[v].http = "POST" /\ threads[v].at = "return"
        /\ threads[v].session \in KnownIds /\ threads[v].header = None

\* ---- C25 ----
\* the records of the table that the step leaves as they were
Kept == {s \in DOMAIN sessions \cap DOMAIN sessions' : sessions'[s] = sessions[s]}

\* C25: a step that answers a DELETE removes at most the record its header
\* names and keeps every other record; a step that answers an initialize
\* keeps every record; a step that answers any other request (a GET of
\* either form, a POST of another method, a POST answered with an error)
\* leaves the table as it was; no step changes a record or removes one that
\* the request's DELETE did not name.
C25_SessionTableFrame ==
    [][/\ Kept = DOMAIN sessions \ (IF req'.http = "DELETE" THEN {req'.session} ELSE {})
       /\ DOMAIN sessions' \subseteq DOMAIN sessions \cup Range(issued')
       /\ pc' = "responded" /\ req'.http = "DELETE" => DOMAIN sessions' \subseteq DOMAIN sessions
       /\ (pc' = "responded" /\ req'.http # "DELETE"
             /\ ~(req'.http = "POST" /\ req'.body = "object"
                    /\ Get(req'.data, "method") = "initialize"))
           => sessions' = sessions
       /\ (pc' = "responded" /\ "error" \in DOMAIN resp'.body) => sessions' = sessions
       /\ pc' = "idle" => sessions' = sessions]_vars

\* a DELETE removed the session it named and the other session is still live
C25_Witness ==
    /\ Responded /\ req.http = "DELETE"
    /\ req.session \in Range(issued) /\ req.session \notin DOMAIN sessions
    /\ DOMAIN sessions = Range(issued) \ {req.session}
    /\ Len(issued) = 2

\* ---- C26 ----
\* the list endpoint of the resource a search tool is named for
OwnEndpoint(tool) ==
    CASE tool = "search_route_targets" -> "ipam/route-targets/"
      [] tool = "search_ipam_roles" -> "ipam/roles/"
      [] tool = "search_device_bays" -> "dcim/device-bays/"
      [] OTHER -> SearchTable[tools[tool]].endpoint

\* C26: a call of a search tool makes exactly one backend request, to the
\* list endpoint of the tool's own resource, carrying the limit.
\* Refuted: search_ipam_roles first queries ipam/route-targets/ (and answers
\* from it when it is empty), search_route_targets makes no request at all,
\* and search_device_bays makes a device lookup first when given device_name.
C26_OneRequestToOwnEndpoint ==
    ToolCalled /\ CalledTool \in SearchTools /\ ~CallArguments.isNone =>
        /\ Len(calls.queries) = 1
        /\ calls.queries[1].path = <<OwnEndpoint(CalledTool)>>
        /\ "limit" \in DOMAIN calls.queries[1].params

\* ---- C27 ----
\* C27: every POST that arrives is answered: a received request leads to a
\* response, the response is a JSON-RPC envelope whatever the body was and
\* whatever the backend did, a request is answered once (its response is
\* written in the one step that answers it and stays until it is sent), and
\* after the response is sent the server is idle again, ready for the next.
C27_EveryPostAnswered ==
    /\ [](Responded => resp.kind = "json" /\ Envelope /\ resp.status \in {200, 400, 500})
    /\ [][/\ resp' # resp => (pc = "received" /\ pc' = "responded") \/ (pc = "responded" /\ pc' = "idle")
         /\ pc = "received" /\ pc' # pc => pc' = "responded" /\ req' = req]_vars
    /\ (pc = "received") ~> Responded
    /\ Responded ~> (pc = "idle")

\* a call whose backend request failed was answered, after an earlier POST
\* had been answered and sent
C27_Witness ==
    /\ Responded /\ ToolCalled
    /\ calls.answers = <<"error">> /\ IsError(-32603)
    /\ DOMAIN sessions # {}

\* ---- C28 ----
\* the call supplies the id of an id-or-name tool (whatever else it supplies)
IdSupplied ==
    /\ ToolCalled /\ CalledTool \in NameResolving
    /\ ~CallArguments.isNone
    /\ Resolution(CalledTool).idKey \in DOMAIN CallArguments.map
SuppliedId == CallArguments.map[Resolution(CalledTool).idKey]
\* the call supplies neither the id nor any identifier
NeitherSupplied ==
    /\ ToolCalled /\ CalledTool \in NameResolving
    /\ ~CallArguments.isNone
    /\ Resolution(CalledTool).idKey \notin DOMAIN CallArguments.map
    /\ \A i \in DOMAIN Resolution(CalledTool).alts :
           Resolution(CalledTool).alts[i][1] \notin DOMAIN CallArguments.map
\* the request is a secondary lookup of the called tool: its list endpoint
\* filtered by one of its identifiers
IsLookup(q) ==
    /\ q.path = <<Resolution(CalledTool).lookup>>
    /\ \E i \in DOMAIN Resolution(CalledTool).alts :
           DOMAIN q.params = {Resolution(CalledTool).alts[i][2]}
\* the text that says which argument must be provided
MustProvide(tool) ==
    IF tools[tool] \in DOMAIN DetailTable THEN DetailTable[tools[tool]].must
    ELSE "Either device_id or device_name must be provided"

\* C28: for every id-or-name tool, a call that supplies the id makes no
\* secondary lookup and its first backend request is the one for exactly
\* that id; a call that supplies neither id nor name makes no backend
\* request and returns one text item saying which argument must be
\* provided.  Refuted by a supplied id that Python takes as false (0): `if
\* not x_id` treats it as not supplied.
C28_IdTakesPrecedence ==
    /\ IdSupplied =>
           /\ Len(calls.queries) >= 1
           /\ Mentions(calls.queries[1], SuppliedId)
           /\ \A i \in DOMAIN calls.queries : ~IsLookup(calls.queries[i])
    /\ NeitherSupplied =>
           /\ calls.queries = <<>>
           /\ OneTextItemResult
           /\ calls.content.items[1].text = <<MustProvide(CalledTool)>>

\* ---- C29 ----
\* the client of stream c has disconnected and its generator still exists
Departed(c) == streams[c].conn \in {"gone", "reset"}
\* the generator of stream c is closed: its task has ended
Stopped(c) == streams[c].at = "done"
\* every stream whose client has gone is eventually stopped
TornDown == \A c \in Clients : Departed(c) ~> Stopped(c)
\* a stopped stream does nothing more: its record changes only by a new GET
\* of the client, and no client receives an event after it disconnected
NoFurtherHeartbeat ==
    \A c \in Clients :
        /\ Stopped(c) /\ streams'[c] # streams[c] =>
               /\ streams'[c].at \in {"start", "none"}
               /\ streams'[c].sent = 0 /\ streams'[c].last = NoEvent
        /\ Departed(c) \/ Departed(c)' =>
               streams'[c].sent = 0 /\ streams'[c].last = NoEvent
\* a step of one client's stream (its disconnect and teardown included)
\* touches nothing else: not the other clients' streams, nor the message
\* request in progress, its response or its backend calls, nor the session
\* table
Isolated ==
    \A c \in Clients :
        streams'[c] # streams[c] =>
            /\ \A d \in Clients \ {c} : streams'[d] = streams[d]
            /\ UNCHANGED <<sessions, issued, pc, req, resp, calls>>
\* a GET that asks for the event stream got it, whether the session table
\* holds the session id it may have presented or not
OpenedRegardless ==
    \A c \in Clients :
        streams[c].resp # NoResponse /\ Negotiates(streams[c].accept) =>
            streams[c].resp = EventStream /\ streams[c].resp.status = 200

OmitsArguments ==
    /\ PostedObject /\ RequestMethod = "tools/call"
    /\ "params" \in DOMAIN req.data /\ ~req.data["params"].isNone
    /\ "arguments" \notin DOMAIN req.data["params"].map
\* the message in hand omits `params`
OmitsParams == PostedObject /\ "params" \notin DOMAIN req.data
\* the same message with `arguments` the empty mapping, resp. with `params`
\* the empty object
WithEmptyArguments(data) ==
    [data EXCEPT !["params"] = PyDict(("arguments" :> PyDict(EmptyMap)) @@ @.map)]
WithEmptyParams(data) == ("params" :> PyDict(EmptyMap)) @@ data
\* what the server can do for the message: every response body with the
\* backend requests made for it and their answers
Outcomes(data) == Dispatch(data, req.session, sessions, NETBOX_TOKEN)

\* C30: a tools/call that omits `arguments` is treated as the same call with
\* `arguments: {}`: for every tool name (registered or not) the two have
\* the same possible outcomes (response body, backend requests, answers),
\* and what was done for the request in hand is one of them; likewise a
\* message that omits `params` is treated as the same message with
\* `params: {}`.
C30_OmittedIsEmpty ==
    /\ OmitsArguments =>
           /\ Outcomes(req.data) = Outcomes(WithEmptyArguments(req.data))
           /\ Handled(resp.body, calls) \in Outcomes(WithEmptyArguments(req.data))
    /\ OmitsParams =>
           /\ Outcomes(req.data) = Outcomes(WithEmptyParams(req.data))
           /\ Handled(resp.body, calls) \in Outcomes(WithEmptyParams(req.data))

\* a search tool called without `arguments` made its request with the
\* default limit alone, as the call with `arguments: {}` does
C30_Witness ==
    /\ OmitsArguments /\ ToolCalled /\ CalledTool = "search_devices"
    /\ Len(calls.queries) = 1
    /\ calls.queries[1].params = ("limit" :> DefaultLimit)
    /\ "result" \in DOMAIN resp.body
    /\ Handled(resp.body, calls) \in Outcomes(WithEmptyArguments(req.data))
====
